---- MODULE Spec2Model ----
(***************************************************************************)
(* Model of the productivity app's task store (todoLocalStorage.ts), its   *)
(* Routine Engine (routine.ts) and the To-Do view (TodoList.tsx).          *)
(*                                                                         *)
(* Time is the millisecond clock `now` (Date.now()).  A task id is the     *)
(* clock value it was created at (Date.now().toString(): the decimal       *)
(* rendering is injective and ids are only compared for equality), and     *)
(* createdAt is that same instant; its date part (toISOString().slice(0,   *)
(* 10)) is DateOf(createdAt), and the lexicographic order of ISO dates is  *)
(* the numeric order of days.  An absent optional field is Undefined (a    *)
(* number) or NoStr (a string); JSON.stringify drops such a field and the  *)
(* code's truthiness tests treat '' and undefined alike.  actualTime (the  *)
(* stopwatch reading) is not modelled: no store operation inspects it.     *)
(***************************************************************************)
EXTENDS Integers, Sequences, FiniteSets, TLC

\* ------------------------------------------------------------------ bounds
MaxNow == 2        \* the clock stops advancing here
MsPerDay == 2      \* clock ticks per calendar day (scaled down from 86400000)
MaxTasks == 2      \* tasks stored across the three lists
EpochWeekday == 4  \* day 0 (1970-01-01) was a Thursday
MaxDay == 4        \* the habit views' clock stops at this day
MaxMarks == 2      \* dates recorded in the historical ledger
MaxGoals == 1      \* goals stored
MaxSubGoals == 2   \* sub-goals of a goal
MaxFlags == 4      \* sub-goals of the goal auto-progress is computed for
SecPerMin == 2     \* seconds per minute (scaled down from 60)
MaxMinutes == 2    \* the longest work duration, in minutes
MaxLog == 4        \* entries of the completed-Pomodoro log

Undefined == -1
NoStr == ""

\* No store read is under test.
NoItem == <<NoStr, NoStr>>

ListTypes == {"todo", "done", "tomorrow"}

VARIABLES
  now,           \* Date.now(), in ms
  localStorage,  \* the persisted lists: keys todoList, doneList, tomorrowList
  habits,        \* getHabits(): the persisted habit definitions
  view,          \* TodoList's React state: todoList, doneList, tomorrowList
  queued,        \* state updates queued by setTodoList/... during mount effects
  phase,         \* where the page load stands
  lastOp,        \* history: the operation that ran last, with its arguments
  atLoad,        \* history: localStorage as the page load under way found it
  rawItem,       \* the key and the text a store read under test is given
  goalsView,     \* the Goals view's React state: goals
  workDone,      \* history: work countdowns completed since the last long break or Reset
  completions,            \* key habitCompletions: habitId -> dates, this week's ledger
  historicalCompletions,  \* key habitHistoricalCompletions: habitId -> dates
  habitLastWeek,          \* key habitLastWeek: the week number of the last weekly refresh
  goals,                  \* key goals: the persisted goals
  timer,                  \* PomodoroTimer's state and the settings of AppContext
  completedPomodoros,     \* AppContext's log of completed Pomodoros, newest first
  returned                \* what the function called last returned

ledgerVars == <<completions, historicalCompletions, habitLastWeek>>
goalVars == <<goals, goalsView>>
pomoVars == <<timer, completedPomodoros>>

vars == <<now, localStorage, habits, view, queued, phase, lastOp, atLoad,
          ledgerVars, goalVars, pomoVars, returned, rawItem, workDone>>

\* ----------------------------------------------------------------- helpers
DateOf(ms) == ms \div MsPerDay                    \* toISOString().slice(0, 10)
Weekday(ms) == (DateOf(ms) + EpochWeekday) % 7     \* Date.getDay(), 0 = Sunday

Range(s) == {s[i] : i \in DOMAIN s}

\* Array.prototype.filter(t => t.id !== id)
WithoutId(list, id) == SelectSeq(list, LAMBDA t : t.id # id)

\* Array.prototype.find(t => t.id === id): the first match, or NoTask
NoTask ==
  [id |-> Undefined, text |-> NoStr, estimatedTime |-> NoStr, completed |-> FALSE,
   createdAt |-> Undefined, completedAt |-> Undefined, listType |-> NoStr,
   source |-> NoStr, habitId |-> NoStr, goalId |-> Undefined, subGoalId |-> Undefined]

FindById(list, id) ==
  IF \E i \in DOMAIN list : list[i].id = id
  THEN list[CHOOSE i \in DOMAIN list :
              /\ list[i].id = id
              /\ \A j \in DOMAIN list : list[j].id = id => i <= j]
  ELSE NoTask

\* Array.prototype.map(t => t.id === task.id ? task : t)
ReplaceById(list, task) ==
  [i \in DOMAIN list |-> IF list[i].id = task.id THEN task ELSE list[i]]

\* ------------------------------------------------------------ task store
getTodoList(ls) == ls.todoList
getDoneList(ls) == ls.doneList
getTomorrowList(ls) == ls.tomorrowList

saveTodoList(ls, list) == [ls EXCEPT !.todoList = list]
saveDoneList(ls, list) == [ls EXCEPT !.doneList = list]
saveTomorrowList(ls, list) == [ls EXCEPT !.tomorrowList = list]

\* The draft of a task: every field but id and createdAt.
Draft(text, est, completed, listType, source, habitId) ==
  [text |-> text, estimatedTime |-> est, completed |-> completed,
   completedAt |-> Undefined, listType |-> listType, source |-> source,
   habitId |-> habitId, goalId |-> Undefined, subGoalId |-> Undefined]

\* { ...task, id: Date.now().toString(), createdAt: new Date().toISOString() }
NewTask(task, t) ==
  [id |-> t, text |-> task.text, estimatedTime |-> task.estimatedTime,
   completed |-> task.completed, createdAt |-> t, completedAt |-> task.completedAt,
   listType |-> task.listType, source |-> task.source, habitId |-> task.habitId,
   goalId |-> task.goalId, subGoalId |-> task.subGoalId]

addTask(ls, task, t) ==
  IF task.listType = "todo"
  THEN saveTodoList(ls, Append(getTodoList(ls), NewTask(task, t)))
  ELSE IF task.listType = "tomorrow"
  THEN saveTomorrowList(ls, Append(getTomorrowList(ls), NewTask(task, t)))
  ELSE ls

\* Mutant of updateTask: the task is replaced in whichever list holds its id.
updateTaskAnyList(ls, task) ==
  [todoList |-> ReplaceById(getTodoList(ls), task),
   doneList |-> ReplaceById(getDoneList(ls), task),
   tomorrowList |-> ReplaceById(getTomorrowList(ls), task)]

updateTask(ls, task) ==
  IF task.listType = "todo"
  THEN saveTodoList(ls, ReplaceById(getTodoList(ls), task))
  ELSE IF task.listType = "done"
  THEN saveDoneList(ls, ReplaceById(getDoneList(ls), task))
  ELSE IF task.listType = "tomorrow"
  THEN saveTomorrowList(ls, ReplaceById(getTomorrowList(ls), task))
  ELSE ls

deleteTask(ls, id, listType) ==
  IF listType = "todo"
  THEN saveTodoList(ls, WithoutId(getTodoList(ls), id))
  ELSE IF listType = "done"
  THEN saveDoneList(ls, WithoutId(getDoneList(ls), id))
  ELSE IF listType = "tomorrow"
  THEN saveTomorrowList(ls, WithoutId(getTomorrowList(ls), id))
  ELSE ls

\* The list moveTask reads for `from`, and the task it finds there.
ListOf(ls, listType) ==
  IF listType = "todo" THEN getTodoList(ls)
  ELSE IF listType = "done" THEN getDoneList(ls)
  ELSE getTomorrowList(ls)

moveTask(ls, id, from, to) ==
  LET task == FindById(ListOf(ls, from), id)
      removed == deleteTask(ls, id, from)
      moved == [task EXCEPT !.listType = to]
  IN  IF task # NoTask
      THEN IF to = "todo" THEN saveTodoList(removed, Append(getTodoList(removed), moved))
           ELSE IF to = "done" THEN saveDoneList(removed, Append(getDoneList(removed), moved))
           ELSE saveTomorrowList(removed, Append(getTomorrowList(removed), moved))
      ELSE removed

\* Mutant of Overdue: createdAt compared with <= today.
OverdueOrToday(task, t) == DateOf(task.createdAt) <= DateOf(t)

\* t.createdAt && t.createdAt.slice(0, 10) < today
Overdue(task, t) == DateOf(task.createdAt) < DateOf(t)

\* Mutant of rolloverIfNeeded: the moved tasks are not removed from Tomorrow.
rolloverKeepingTomorrow(ls, t) ==
  LET toMove == SelectSeq(getTomorrowList(ls), LAMBDA x : Overdue(x, t))
  IN  IF Len(toMove) > 0
      THEN saveTodoList(ls, getTodoList(ls) \o [i \in DOMAIN toMove |->
                                                 [toMove[i] EXCEPT !.listType = "todo"]])
      ELSE ls

rolloverIfNeeded(ls, t) ==
  LET tomorrow == getTomorrowList(ls)
      todo == getTodoList(ls)
      toMove == SelectSeq(tomorrow, LAMBDA x : Overdue(x, t))
  IN  IF Len(toMove) > 0
      THEN saveTomorrowList(
             saveTodoList(ls, todo \o [i \in DOMAIN toMove |->
                                        [toMove[i] EXCEPT !.listType = "todo"]]),
             SelectSeq(tomorrow, LAMBDA x : ~Overdue(x, t)))
      ELSE ls

\* The last-active-date variant of rolloverIfNeeded: lastDate is the stored
\* todoLastActiveDate (Undefined when the key is absent); the result is the
\* lists and the marker it leaves.
rolloverIfNeededLastActive(ls, lastDate, t) ==
  IF lastDate # DateOf(t)
  THEN LET cleared == saveDoneList(ls, <<>>)
           tomorrow == getTomorrowList(cleared)
           todo == getTodoList(cleared)
       IN  [ls |-> saveTomorrowList(
                     saveTodoList(cleared, todo \o [i \in DOMAIN tomorrow |->
                                    [tomorrow[i] EXCEPT !.listType = "todo"]]),
                     <<>>),
            lastActiveDate |-> DateOf(t)]
  ELSE [ls |-> ls, lastActiveDate |-> lastDate]

\* --------------------------------------------------------- routine engine
\* The habit definitions the load finds in storage (Habit, habitLocalStorage.ts).
\* daysOfWeek absent is NoDays.
NoDays == {Undefined}

Habit(id, name, habitType, freq, days, auto) ==
  [id |-> id, name |-> name, habitType |-> habitType,
   frequency |-> [type |-> freq, daysOfWeek |-> days], autoAddToTodo |-> auto]

hDaily == Habit("h1", "Read", "good", "daily", NoDays, TRUE)
hCustom == Habit("h2", "Run", "good", "custom", {EpochWeekday}, TRUE)
hWeekly == Habit("h3", "Swim", "good", "weekly", NoDays, TRUE)
hAvoid == Habit("h4", "Smoke", "avoid", "daily", NoDays, TRUE)
hManual == Habit("h5", "Walk", "good", "daily", NoDays, FALSE)

\* On day 0 (a Thursday) hCustom and hDaily are due, on the other days hDaily.
StoredHabits == <<hWeekly, hAvoid, hManual, hCustom, hDaily>>

\* habit.name + ' (from Habit)'
FromHabit(name) ==
  CASE name = "Read" -> "Read (from Habit)"
    [] name = "Run" -> "Run (from Habit)"
    [] name = "Swim" -> "Swim (from Habit)"
    [] name = "Smoke" -> "Smoke (from Habit)"
    [] OTHER -> "Walk (from Habit)"

\* Mutant of isHabitScheduledForToday: a custom habit is due every day.
isHabitScheduledEveryDay(habit, t) == habit.frequency.type \in {"daily", "custom"}

isHabitScheduledForToday(habit, t) ==
  IF habit.frequency.type = "daily" THEN TRUE
  ELSE IF habit.frequency.type = "custom"
  THEN IF habit.frequency.daysOfWeek = NoDays THEN FALSE
       ELSE Weekday(t) \in habit.frequency.daysOfWeek
  ELSE FALSE

todayStr(t) == DateOf(t)

\* habitType === 'good' && autoAddToTodo && isHabitScheduledForToday(habit)
Eligible(habit, t) ==
  /\ habit.habitType = "good"
  /\ habit.autoAddToTodo
  /\ isHabitScheduledForToday(habit, t)

\* todoList.some(t => t.habitId === habit.id && t.createdAt.slice(0, 10) === today)
alreadyExists(todoList, habit, today) ==
  \E i \in DOMAIN todoList :
    todoList[i].habitId = habit.id /\ DateOf(todoList[i].createdAt) = today

RoutineDraft(habit) ==
  Draft(FromHabit(habit.name), NoStr, FALSE, "todo", "Routine", habit.id)

\* The forEach of runDailyHabitRoutines over the habits hs: todoList and today
\* were read once, before the loop; the clock reads t at a habit and advances
\* by step (0 or 1 ms) with every task added.
RECURSIVE RoutineLoop(_, _, _, _, _, _)
RoutineLoop(ls, hs, todoList, today, t, step) ==
  IF hs = <<>> THEN [ls |-> ls, clock |-> t]
  ELSE IF Eligible(Head(hs), t) /\ ~alreadyExists(todoList, Head(hs), today)
  THEN RoutineLoop(addTask(ls, RoutineDraft(Head(hs)), t), Tail(hs), todoList,
                   today, t + step, step)
  ELSE RoutineLoop(ls, Tail(hs), todoList, today, t, step)

runDailyHabitRoutines(ls, hs, t, step) ==
  RoutineLoop(ls, hs, getTodoList(ls), todayStr(t), t, step)

\* ------------------------------------------------------------ habit ledger
\* Dates are day numbers (the YYYY-MM-DD strings, whose order is the order of
\* the days); the process's time zone is UTC, so the local date is DateOf.
\* A ledger maps the habit ids it has a key for to their lists of dates.
EmptyLedger == [k \in {} |-> <<>>]

\* completions[habitId] || []
DatesOf(ledger, habitId) == IF habitId \in DOMAIN ledger THEN ledger[habitId] ELSE <<>>

\* completions[habitId] = dates
WithDates(ledger, habitId, dates) ==
  [k \in DOMAIN ledger \cup {habitId} |-> IF k = habitId THEN dates ELSE ledger[k]]

\* Mutant of PushOnce: the date is pushed without the includes test.
PushAlways(dates, date) == Append(dates, date)

\* if (!list.includes(date)) list.push(date)
PushOnce(dates, date) == IF date \in Range(dates) THEN dates ELSE Append(dates, date)

\* Mutant of markHabitComplete's historical half: the historical ledger is not written.
markHistoricalSkipped(historical, habitId, date) == historical

\* markHabitComplete's two halves: the same insertion into each ledger.
markCurrent(current, habitId, date) ==
  WithDates(current, habitId, PushOnce(DatesOf(current, habitId), date))

markHistorical(historical, habitId, date) ==
  WithDates(historical, habitId, PushOnce(DatesOf(historical, habitId), date))

\* The ledgers are passed and returned as [completions, historicalCompletions].
markHabitComplete(lg, habitId, date) ==
  [completions |-> markCurrent(lg.completions, habitId, date),
   historicalCompletions |-> markHistorical(lg.historicalCompletions, habitId, date)]

\* if (ledger[habitId]) ledger[habitId] = ledger[habitId].filter(d => d !== date)
FilterOut(ledger, habitId, date) ==
  IF habitId \in DOMAIN ledger
  THEN WithDates(ledger, habitId, SelectSeq(ledger[habitId], LAMBDA d : d # date))
  ELSE ledger

unmarkHabitComplete(lg, habitId, date) ==
  [completions |-> FilterOut(lg.completions, habitId, date),
   historicalCompletions |-> FilterOut(lg.historicalCompletions, habitId, date)]

\* Mutant of deleteHabit: the habit's historical entry is deleted as well.
deleteHabitAndHistory(hs, lg, id) ==
  [habits |-> SelectSeq(hs, LAMBDA h : h.id # id),
   completions |-> [k \in DOMAIN lg.completions \ {id} |-> lg.completions[k]],
   historicalCompletions |->
     [k \in DOMAIN lg.historicalCompletions \ {id} |-> lg.historicalCompletions[k]]]

\* deleteHabit: the habits without id, the current ledger without its key.
deleteHabit(hs, lg, id) ==
  [habits |-> SelectSeq(hs, LAMBDA h : h.id # id),
   completions |-> [k \in DOMAIN lg.completions \ {id} |-> lg.completions[k]],
   historicalCompletions |-> lg.historicalCompletions]

\* historicalCompletions.filter(date => date >= startDate && date <= endDate)
getHistoricalCompletionsForRange(historical, habitId, startDate, endDate) ==
  SelectSeq(DatesOf(historical, habitId), LAMBDA d : d >= startDate /\ d <= endDate)

\* `${year}-W${floor((now - Jan 1 of the year) / 7 days)}`: the clock stays in
\* the year that starts at day 0, so the week number stands for the string.
WeekNum(t) == DateOf(t) \div 7

\* HabitTracker's weekly refresh effect: the current ledger and the marker it leaves.
weeklyRefresh(current, lastWeek, t) ==
  IF lastWeek # WeekNum(t) /\ Weekday(t) = 0
  THEN [completions |-> EmptyLedger, habitLastWeek |-> WeekNum(t)]
  ELSE [completions |-> current, habitLastWeek |-> lastWeek]

\* The seven dates from the Sunday on or before today.
getCurrentWeekDates(t) == [i \in 1..7 |-> DateOf(t) - Weekday(t) + (i - 1)]

\* Mutant of RoundPercent: the quotient is truncated.
TruncPercent(n, d) == (100 * n) \div d

\* Math.round(n / d * 100) for n >= 0, d > 0: halves round up.
RoundPercent(n, d) == (200 * n + d) \div (2 * d)

\* for (i = weekDates.length - 1; i >= 0; i--) if included streak++ else break
RECURSIVE StreakLoop(_, _, _)
StreakLoop(weekDates, weekCompletions, i) ==
  IF i = 0 THEN 0
  ELSE IF weekDates[i] \in Range(weekCompletions)
  THEN 1 + StreakLoop(weekDates, weekCompletions, i - 1)
  ELSE 0

\* for (i = 0; i < weekDates.length; i++) cur++ and bestStreak = max, or cur = 0
RECURSIVE BestLoop(_, _, _, _, _)
BestLoop(weekDates, weekCompletions, i, cur, best) ==
  IF i > Len(weekDates) THEN best
  ELSE IF weekDates[i] \in Range(weekCompletions)
  THEN BestLoop(weekDates, weekCompletions, i + 1, cur + 1,
                IF cur + 1 > best THEN cur + 1 ELSE best)
  ELSE BestLoop(weekDates, weekCompletions, i + 1, 0, best)

getHabitStats(current, habit, t) ==
  LET weekDates == getCurrentWeekDates(t)
      weekCompletions == SelectSeq(DatesOf(current, habit.id),
                                   LAMBDA d : d \in Range(weekDates))
  IN  [total |-> Len(weekCompletions),
       currentStreak |-> StreakLoop(weekDates, weekCompletions, Len(weekDates)),
       bestStreak |-> BestLoop(weekDates, weekCompletions, 1, 0, 0),
       percent |-> IF Len(weekDates) > 0
                   THEN RoundPercent(Len(weekCompletions), Len(weekDates)) ELSE 0,
       completions |-> weekCompletions]

\* -------------------------------------------------------------- goal store
\* rewardMotivation and a sub-goal's estimatedTime are not modelled: no store
\* operation inspects them.
\* goals.findIndex(g => g.id === id): the first match, 1-based, or 0 for -1.
FindIndex(list, id) ==
  IF \E i \in DOMAIN list : list[i].id = id
  THEN CHOOSE i \in DOMAIN list :
         /\ list[i].id = id
         /\ \A j \in DOMAIN list : list[j].id = id => i <= j
  ELSE 0

\* feedbackText left out of the call.
NoArg == "<undefined>"

addGoal(gs, title, t) ==
  Append(gs, [id |-> t, title |-> title, progress |-> 0, createdAt |-> t,
              subGoals |-> <<>>, completed |-> FALSE, completedAt |-> Undefined,
              feedback |-> NoStr, autoProgress |-> FALSE])

updateGoal(gs, updatedGoal) ==
  [i \in DOMAIN gs |-> IF gs[i].id = updatedGoal.id THEN updatedGoal ELSE gs[i]]

deleteGoal(gs, goalId) == SelectSeq(gs, LAMBDA g : g.id # goalId)

\* Mutant of toggleGoalCompletion: completedAt is kept when un-completing.
toggleGoalCompletionKeepingDate(gs, goalId, isCompleted, feedbackText, t) ==
  LET goalIndex == FindIndex(gs, goalId)
  IN  IF goalIndex = 0 THEN gs
      ELSE [gs EXCEPT ![goalIndex].completed = isCompleted,
                      ![goalIndex].completedAt = IF isCompleted THEN t ELSE @,
                      ![goalIndex].feedback =
                        IF isCompleted /\ feedbackText # NoArg THEN feedbackText ELSE @]

toggleGoalCompletion(gs, goalId, isCompleted, feedbackText, t) ==
  LET goalIndex == FindIndex(gs, goalId)
  IN  IF goalIndex = 0 THEN gs
      ELSE [gs EXCEPT ![goalIndex].completed = isCompleted,
                      ![goalIndex].completedAt = IF isCompleted THEN t ELSE Undefined,
                      ![goalIndex].feedback =
                        IF isCompleted /\ feedbackText # NoArg THEN feedbackText ELSE @]

updateGoalTitle(gs, goalId, newTitle) ==
  LET goalIndex == FindIndex(gs, goalId)
  IN  IF goalIndex = 0 THEN gs ELSE [gs EXCEPT ![goalIndex].title = newTitle]

\* subGoals.filter(sg => sg.completed).length
CompletedCount(subGoals) == Len(SelectSeq(subGoals, LAMBDA sg : sg.completed))

\* Mutant of AutoProgressOf: the share of sub-goals not completed.
OpenShareOf(subGoals) ==
  IF Len(subGoals) > 0
  THEN RoundPercent(Len(subGoals) - CompletedCount(subGoals), Len(subGoals))
  ELSE 0

\* Math.round((completedCount / subGoals.length) * 100), or 0 without sub-goals
AutoProgressOf(subGoals) ==
  IF Len(subGoals) > 0 THEN RoundPercent(CompletedCount(subGoals), Len(subGoals)) ELSE 0

toggleGoalAutoProgress(gs, goalId, auto) ==
  LET goalIndex == FindIndex(gs, goalId)
  IN  IF goalIndex = 0 THEN gs
      ELSE [gs EXCEPT ![goalIndex].autoProgress = auto,
                      ![goalIndex].progress =
                        IF auto THEN AutoProgressOf(gs[goalIndex].subGoals) ELSE @]

\* Mutant of addSubGoal: progress is recomputed while autoProgress is on.
addSubGoalRecomputing(gs, goalId, text, t) ==
  LET goalIndex == FindIndex(gs, goalId)
      subGoals == IF goalIndex = 0 THEN <<>>
                  ELSE Append(gs[goalIndex].subGoals,
                              [id |-> t, text |-> text, completed |-> FALSE, createdAt |-> t])
  IN  IF goalIndex = 0 THEN gs
      ELSE [gs EXCEPT ![goalIndex].subGoals = subGoals,
                      ![goalIndex].progress =
                        IF gs[goalIndex].autoProgress THEN AutoProgressOf(subGoals) ELSE @]

addSubGoal(gs, goalId, text, t) ==
  LET goalIndex == FindIndex(gs, goalId)
  IN  IF goalIndex = 0 THEN gs
      ELSE [gs EXCEPT ![goalIndex].subGoals =
              Append(@, [id |-> t, text |-> text, completed |-> FALSE, createdAt |-> t])]

updateSubGoal(gs, goalId, subGoalId, completed) ==
  LET goalIndex == FindIndex(gs, goalId)
      subGoalIndex == IF goalIndex = 0 THEN 0 ELSE FindIndex(gs[goalIndex].subGoals, subGoalId)
  IN  IF goalIndex = 0 \/ subGoalIndex = 0 THEN gs
      ELSE [gs EXCEPT ![goalIndex].subGoals[subGoalIndex].completed = completed]

deleteSubGoal(gs, goalId, subGoalId) ==
  LET goalIndex == FindIndex(gs, goalId)
  IN  IF goalIndex = 0 THEN gs
      ELSE [gs EXCEPT ![goalIndex].subGoals = SelectSeq(@, LAMBDA sg : sg.id # subGoalId)]

updateSubGoalText(gs, goalId, subGoalId, newText) ==
  LET goalIndex == FindIndex(gs, goalId)
      subGoalIndex == IF goalIndex = 0 THEN 0 ELSE FindIndex(gs[goalIndex].subGoals, subGoalId)
  IN  IF goalIndex = 0 \/ subGoalIndex = 0 THEN gs
      ELSE [gs EXCEPT ![goalIndex].subGoals[subGoalIndex].text = newText]

\* --------------------------------------------------------- Pomodoro timer
\* timer holds PomodoroTimer's timerMode, secondsRemaining, isActive and
\* pomodorosInCycle with AppContext's pomodoroSettings.  The Doing list is not
\* modelled: the task label logged is '' (nothing typed); a log entry's id (a
\* time stamp and a random suffix) is left out.
DEFAULT_POMODORO_SETTINGS ==
  [workDuration |-> 25, shortBreakDuration |-> 5, longBreakDuration |-> 15,
   pomodorosPerLongBreak |-> 4]

getDurationForMode(mode, currentSettings) ==
  IF mode = "work" THEN currentSettings.workDuration * SecPerMin
  ELSE IF mode = "shortBreak" THEN currentSettings.shortBreakDuration * SecPerMin
  ELSE IF mode = "longBreak" THEN currentSettings.longBreakDuration * SecPerMin
  ELSE currentSettings.workDuration * SecPerMin

\* useState('work'), useState(workDuration * 60), useState(false), useState(0)
InitialTimer(settings) ==
  [timerMode |-> "work", secondsRemaining |-> getDurationForMode("work", settings),
   isActive |-> FALSE, pomodorosInCycle |-> 0, pomodoroSettings |-> settings]

\* The effect on [timerMode, pomodoroSettings, isActive]: while the timer is
\* not active the countdown is set to the mode's duration.
ResetWhenIdle(tm) ==
  IF ~tm.isActive
  THEN [tm EXCEPT !.secondsRemaining = getDurationForMode(tm.timerMode, tm.pomodoroSettings)]
  ELSE tm

\* Mutant of addCompletedPomodoro: the entry is put at the end of the log.
addCompletedPomodoroLast(log, settings, taskName, t) ==
  Append(log, [taskName |-> taskName, completedAt |-> t, duration |-> settings.workDuration])

\* setCompletedPomodoros(prevLog => [newEntry, ...prevLog])
addCompletedPomodoro(log, settings, taskName, t) ==
  <<[taskName |-> taskName, completedAt |-> t, duration |-> settings.workDuration]>> \o log

\* Mutant of countdownZero: the long break is taken one Pomodoro late.
countdownZeroLate(tm, log, t) ==
  LET newPomodorosInCycle == tm.pomodorosInCycle + 1
  IN  IF tm.timerMode = "work"
      THEN [timer |-> ResetWhenIdle(
                        IF newPomodorosInCycle > tm.pomodoroSettings.pomodorosPerLongBreak
                        THEN [tm EXCEPT !.isActive = FALSE, !.timerMode = "longBreak",
                                        !.pomodorosInCycle = 0]
                        ELSE [tm EXCEPT !.isActive = FALSE, !.timerMode = "shortBreak",
                                        !.pomodorosInCycle = newPomodorosInCycle]),
            log |-> addCompletedPomodoro(log, tm.pomodoroSettings, NoStr, t)]
      ELSE [timer |-> ResetWhenIdle([tm EXCEPT !.isActive = FALSE, !.timerMode = "work"]),
            log |-> log]

\* The countdown effect's branch isActive && secondsRemaining === 0, and the
\* re-render it causes: the timer and the log it leaves.
countdownZero(tm, log, t) ==
  LET newPomodorosInCycle == tm.pomodorosInCycle + 1
  IN  IF tm.timerMode = "work"
      THEN [timer |-> ResetWhenIdle(
                        IF newPomodorosInCycle >= tm.pomodoroSettings.pomodorosPerLongBreak
                        THEN [tm EXCEPT !.isActive = FALSE, !.timerMode = "longBreak",
                                        !.pomodorosInCycle = 0]
                        ELSE [tm EXCEPT !.isActive = FALSE, !.timerMode = "shortBreak",
                                        !.pomodorosInCycle = newPomodorosInCycle]),
            log |-> addCompletedPomodoro(log, tm.pomodoroSettings, NoStr, t)]
      ELSE [timer |-> ResetWhenIdle([tm EXCEPT !.isActive = FALSE, !.timerMode = "work"]),
            log |-> log]

\* The interval's setSecondsRemaining(prev => prev - 1), and the countdown
\* effect of the re-render when that reaches zero.
secondTick(tm, log, t) ==
  LET ticked == [tm EXCEPT !.secondsRemaining = @ - 1]
  IN  IF ticked.secondsRemaining = 0 THEN countdownZero(ticked, log, t)
      ELSE [timer |-> ticked, log |-> log]

handleStartPause(tm) ==
  ResetWhenIdle([tm EXCEPT !.secondsRemaining =
                             IF ~tm.isActive /\ tm.secondsRemaining = 0
                             THEN getDurationForMode(tm.timerMode, tm.pomodoroSettings) ELSE @,
                           !.isActive = ~tm.isActive])

\* Mutant of handleReset: the cycle count is kept.
handleResetKeepingCycle(tm) ==
  ResetWhenIdle([tm EXCEPT !.isActive = FALSE, !.timerMode = "work"])

handleReset(tm) ==
  ResetWhenIdle([tm EXCEPT !.isActive = FALSE, !.timerMode = "work", !.pomodorosInCycle = 0])

handleSkipBreak(tm) ==
  IF tm.timerMode = "shortBreak" \/ tm.timerMode = "longBreak"
  THEN ResetWhenIdle([tm EXCEPT !.isActive = FALSE, !.timerMode = "work"])
  ELSE tm

\* Mutant of handleSaveSettings: a running countdown is set to the new duration.
handleSaveSettingsRescaling(tm, modalWorkDuration, modalShortBreakDuration, modalLongBreakDuration) ==
  LET old == tm.pomodoroSettings
      new == [old EXCEPT
                !.workDuration = IF modalWorkDuration > 0 THEN modalWorkDuration ELSE @,
                !.shortBreakDuration =
                  IF modalShortBreakDuration > 0 THEN modalShortBreakDuration ELSE @,
                !.longBreakDuration =
                  IF modalLongBreakDuration > 0 THEN modalLongBreakDuration ELSE @]
  IN  [tm EXCEPT !.pomodoroSettings = new,
                 !.secondsRemaining = getDurationForMode(tm.timerMode, new)]

\* handleSaveSettings with the modal's three inputs; an input that is not
\* positive keeps the stored duration.
handleSaveSettings(tm, modalWorkDuration, modalShortBreakDuration, modalLongBreakDuration) ==
  LET old == tm.pomodoroSettings
      new == [old EXCEPT
                !.workDuration = IF modalWorkDuration > 0 THEN modalWorkDuration ELSE @,
                !.shortBreakDuration =
                  IF modalShortBreakDuration > 0 THEN modalShortBreakDuration ELSE @,
                !.longBreakDuration =
                  IF modalLongBreakDuration > 0 THEN modalLongBreakDuration ELSE @]
  IN  ResetWhenIdle([tm EXCEPT !.pomodoroSettings = new])

\* ---------------------------------------------------------------- history
\* name: the operation; task: the task it was given or returned; to: the list
\* it was aimed at; n: how many tasks it moved or created; at: the clock then.
Op(name, task, to, n, at) ==
  [name |-> name, task |-> task, to |-> to, n |-> n, at |-> at]

EmptyLists == [todoList |-> <<>>, doneList |-> <<>>, tomorrowList |-> <<>>]

TaskCount(ls) == Len(ls.todoList) + Len(ls.doneList) + Len(ls.tomorrowList)

AllTasks(ls) == Range(ls.todoList) \cup Range(ls.doneList) \cup Range(ls.tomorrowList)

StoredIds(ls) == {t.id : t \in AllTasks(ls)}

\* No page load is under way.
NoLoad == [lists |-> EmptyLists, at |-> 0]

Init ==
  /\ now = 0
  /\ localStorage = EmptyLists
  /\ habits = StoredHabits
  /\ view = EmptyLists
  /\ queued = EmptyLists
  /\ phase = "unmounted"
  /\ lastOp = Op("init", NoTask, NoStr, 0, 0)
  /\ atLoad = NoLoad
  /\ completions = EmptyLedger
  /\ historicalCompletions = EmptyLedger
  /\ habitLastWeek = Undefined
  /\ goals = <<>>
  /\ timer = InitialTimer(DEFAULT_POMODORO_SETTINGS)
  /\ completedPomodoros = <<>>
  /\ returned = Undefined
  /\ rawItem = NoItem
  /\ workDone = 0
  /\ goalsView = <<>>

\* ------------------------------------------------- the store's operations
Tick ==
  /\ now < MaxNow
  /\ now' = now + 1
  /\ lastOp' = Op("tick", NoTask, NoStr, 0, now)
  /\ UNCHANGED <<ledgerVars, goalVars, pomoVars, returned, rawItem, workDone, localStorage, habits, view, queued, phase, atLoad>>

AddTask ==
  \E listType \in ListTypes :
    LET task == Draft("A", "30", listType = "done", listType, NoStr, NoStr) IN
    /\ TaskCount(localStorage) < MaxTasks
    /\ localStorage' = addTask(localStorage, task, now)
    /\ lastOp' = Op("addTask", NewTask(task, now), listType, 1, now)
    /\ UNCHANGED <<ledgerVars, goalVars, pomoVars, returned, rawItem, workDone, now, habits, view, queued, phase, atLoad>>

\* updateTask for a stored task with its text edited (as saveEdit calls it)
\* and any listType value in the object passed.
UpdateTask ==
  \E from \in ListTypes, to \in ListTypes :
    \E i \in DOMAIN ListOf(localStorage, from) :
      LET task == [ListOf(localStorage, from)[i] EXCEPT !.text = "B", !.listType = to] IN
      /\ localStorage' = updateTask(localStorage, task)
      /\ lastOp' = Op("updateTask", task, to, 0, now)
      /\ UNCHANGED <<ledgerVars, goalVars, pomoVars, returned, rawItem, workDone, now, habits, view, queued, phase, atLoad>>

DeleteTask ==
  \E id \in StoredIds(localStorage), listType \in ListTypes :
    /\ localStorage' = deleteTask(localStorage, id, listType)
    /\ lastOp' = Op("deleteTask", NoTask, listType, 0, now)
    /\ UNCHANGED <<ledgerVars, goalVars, pomoVars, returned, rawItem, workDone, now, habits, view, queued, phase, atLoad>>

MoveTask ==
  \E id \in StoredIds(localStorage), from \in ListTypes, to \in ListTypes :
    /\ localStorage' = moveTask(localStorage, id, from, to)
    /\ lastOp' = Op("moveTask", [NoTask EXCEPT !.id = id, !.listType = from], to, 0, now)
    /\ UNCHANGED <<ledgerVars, goalVars, pomoVars, returned, rawItem, workDone, now, habits, view, queued, phase, atLoad>>

RolloverIfNeeded ==
  /\ localStorage' = rolloverIfNeeded(localStorage, now)
  /\ lastOp' = Op("rolloverIfNeeded", NoTask, "todo",
                  Len(SelectSeq(localStorage.tomorrowList, LAMBDA x : Overdue(x, now))), now)
  /\ UNCHANGED <<ledgerVars, goalVars, pomoVars, returned, rawItem, workDone, now, habits, view, queued, phase, atLoad>>

Next ==
  \/ Tick
  \/ AddTask
  \/ UpdateTask
  \/ DeleteTask
  \/ MoveTask
  \/ RolloverIfNeeded

Spec == Init /\ [][Next]_vars

\* ------------------------------------- the Routine Engine and the user's moves
RunDailyHabitRoutines ==
  \E step \in {0, 1} :
    LET r == runDailyHabitRoutines(localStorage, habits, now, step) IN
    /\ TaskCount(r.ls) <= MaxTasks
    /\ r.clock <= MaxNow
    /\ step = 1 => r.clock > now
    /\ localStorage' = r.ls
    /\ now' = r.clock
    /\ lastOp' = Op("runDailyHabitRoutines", NoTask, "todo",
                    TaskCount(r.ls) - TaskCount(localStorage), now)
    /\ UNCHANGED <<ledgerVars, goalVars, pomoVars, returned, rawItem, workDone, habits, view, queued, phase, atLoad>>

NextRoutine ==
  \/ Tick
  \/ RunDailyHabitRoutines
  \/ MoveTask
  \/ DeleteTask

SpecRoutine == Init /\ [][NextRoutine]_vars

\* ------------------------------------------------------------ To-Do view
Keys == {"todoList", "doneList", "tomorrowList"}

\* base with the lists named by keys taken from src.
Overlay(base, src, keys) ==
  [todoList |-> IF "todoList" \in keys THEN src.todoList ELSE base.todoList,
   doneList |-> IF "doneList" \in keys THEN src.doneList ELSE base.doneList,
   tomorrowList |-> IF "tomorrowList" \in keys THEN src.tomorrowList
                    ELSE base.tomorrowList]

KeyOf(listType) ==
  IF listType = "todo" THEN "todoList"
  ELSE IF listType = "done" THEN "doneList" ELSE "tomorrowList"

\* setTodoList([...getTodoList()]) and its like for the lists named by keys,
\* then the re-render, whose save effects write those lists of the state back.
SetFromStorage(ls, v, keys) ==
  LET v1 == Overlay(v, ls, keys)
  IN  [ls |-> Overlay(ls, v1, keys), view |-> v1]

\* What the user types in the To-Do view: the text of a task, and no estimate
\* ("Est. min (optional)").
TypedText == "A"

handleAddTask(ls, v, t) ==
  SetFromStorage(addTask(ls, Draft(TypedText, NoStr, FALSE, "todo", NoStr, NoStr), t),
                 v, {"todoList"})

saveEdit(ls, v, task) ==
  SetFromStorage(updateTask(ls, [task EXCEPT !.text = TypedText, !.estimatedTime = NoStr]),
                 v, {KeyOf(task.listType)})

\* The lists and the view completeTask leaves.
completeTask(ls, v, task, t) ==
  LET updated == [task EXCEPT !.completed = TRUE, !.completedAt = t,
                              !.listType = "done"]
  IN  SetFromStorage(moveTask(updateTask(ls, updated), task.id, "todo", "done"),
                     v, {"todoList", "doneList"})

\* The ledgers completeTask leaves: a Routine task linked to a habit marks the
\* habit complete for today.
completeTaskLedgers(lg, task, t) ==
  IF task.source = "Routine" /\ task.habitId # NoStr
  THEN markHabitComplete(lg, task.habitId, DateOf(t))
  ELSE lg

\* The goals completeTask leaves: a task linked to a sub-goal marks it complete.
completeTaskGoals(gs, task) ==
  IF task.goalId # Undefined /\ task.subGoalId # Undefined
  THEN updateSubGoal(gs, task.goalId, task.subGoalId, TRUE)
  ELSE gs

pushToTomorrow(ls, v, task) ==
  SetFromStorage(moveTask(ls, task.id, "todo", "tomorrow"), v,
                 {"todoList", "tomorrowList"})

moveToToday(ls, v, task) ==
  SetFromStorage(moveTask(ls, task.id, "tomorrow", "todo"), v,
                 {"tomorrowList", "todoList"})

handleDeleteTask(ls, v, task) ==
  SetFromStorage(deleteTask(ls, task.id, task.listType), v, {KeyOf(task.listType)})

handleDeleteAllDone(ls, v) ==
  [ls |-> saveDoneList(ls, <<>>), view |-> [v EXCEPT !.doneList = <<>>]]

\* newList.splice(fromIdx, 1) then newList.splice(toIdx, 0, moved), 1-based.
Spliced(list, fromIdx, toIdx) ==
  LET rest == SubSeq(list, 1, fromIdx - 1) \o SubSeq(list, fromIdx + 1, Len(list))
  IN  SubSeq(rest, 1, toIdx - 1) \o <<list[fromIdx]>> \o SubSeq(rest, toIdx, Len(rest))

\* The drag-and-drop reorder callback: the state's list, reordered, is set
\* as the state and written to storage.
reorder(ls, v, fromIdx, toIdx) ==
  LET newList == Spliced(v.todoList, fromIdx, toIdx)
  IN  [ls |-> saveTodoList(ls, newList), view |-> [v EXCEPT !.todoList = newList]]

\* Mutant of TodoListMountEffects: the lists are loaded before the rollover.
MountEffectsLoadFirst(ls, v, t) ==
  [queued |-> ls, ls |-> Overlay(rolloverIfNeeded(ls, t), v, Keys)]

\* TodoList's mount effects, in their order: rolloverIfNeeded(); the load
\* effect queues the stored lists as the next state; the three save effects
\* write the lists of the state this render holds.
TodoListMountEffects(ls, v, t) ==
  LET rolled == rolloverIfNeeded(ls, t)
  IN  [queued |-> rolled, ls |-> Overlay(rolled, v, Keys)]

\* The user's handlers run on a settled page.
Settled == phase = "settled"

HandleAddTask ==
  LET r == handleAddTask(localStorage, view, now) IN
  /\ Settled
  /\ TaskCount(localStorage) < MaxTasks
  /\ localStorage' = r.ls /\ view' = r.view
  /\ lastOp' = Op("handleAddTask", NoTask, "todo", 1, now)
  /\ atLoad' = NoLoad
  /\ UNCHANGED <<ledgerVars, goalVars, pomoVars, returned, rawItem, workDone, now, habits, queued, phase>>

SaveEdit ==
  \E task \in AllTasks(view) :
    LET r == saveEdit(localStorage, view, task) IN
    /\ Settled
    /\ localStorage' = r.ls /\ view' = r.view
    /\ lastOp' = Op("saveEdit", NoTask, task.listType, 0, now)
    /\ atLoad' = NoLoad
    /\ UNCHANGED <<ledgerVars, goalVars, pomoVars, returned, rawItem, workDone, now, habits, queued, phase>>

CompleteTask ==
  \E task \in Range(view.todoList) :
    LET r == [ls |-> completeTask(localStorage, view, task, now).ls,
              view |-> completeTask(localStorage, view, task, now).view,
              ledgers |-> completeTaskLedgers(
                            [completions |-> completions,
                             historicalCompletions |-> historicalCompletions], task, now)] IN
    /\ Settled
    /\ localStorage' = r.ls /\ view' = r.view
    /\ lastOp' = Op("completeTask", task, "done", 0, now)
    /\ atLoad' = NoLoad
    /\ completions' = r.ledgers.completions
    /\ historicalCompletions' = r.ledgers.historicalCompletions
    /\ goals' = completeTaskGoals(goals, task)
    /\ UNCHANGED <<habitLastWeek, goalsView, pomoVars, returned, rawItem, workDone, now, habits, queued, phase>>

PushToTomorrow ==
  \E task \in Range(view.todoList) :
    LET r == pushToTomorrow(localStorage, view, task) IN
    /\ Settled
    /\ localStorage' = r.ls /\ view' = r.view
    /\ lastOp' = Op("pushToTomorrow", NoTask, "tomorrow", 0, now)
    /\ atLoad' = NoLoad
    /\ UNCHANGED <<ledgerVars, goalVars, pomoVars, returned, rawItem, workDone, now, habits, queued, phase>>

MoveToToday ==
  \E task \in Range(view.tomorrowList) :
    LET r == moveToToday(localStorage, view, task) IN
    /\ Settled
    /\ localStorage' = r.ls /\ view' = r.view
    /\ lastOp' = Op("moveToToday", NoTask, "todo", 0, now)
    /\ atLoad' = NoLoad
    /\ UNCHANGED <<ledgerVars, goalVars, pomoVars, returned, rawItem, workDone, now, habits, queued, phase>>

HandleDeleteTask ==
  \E task \in AllTasks(view) :
    LET r == handleDeleteTask(localStorage, view, task) IN
    /\ Settled
    /\ localStorage' = r.ls /\ view' = r.view
    /\ lastOp' = Op("handleDeleteTask", NoTask, task.listType, 0, now)
    /\ atLoad' = NoLoad
    /\ UNCHANGED <<ledgerVars, goalVars, pomoVars, returned, rawItem, workDone, now, habits, queued, phase>>

HandleDeleteAllDone ==
  LET r == handleDeleteAllDone(localStorage, view) IN
  /\ Settled
  /\ localStorage' = r.ls /\ view' = r.view
  /\ lastOp' = Op("handleDeleteAllDone", NoTask, "done", 0, now)
  /\ atLoad' = NoLoad
  /\ UNCHANGED <<ledgerVars, goalVars, pomoVars, returned, rawItem, workDone, now, habits, queued, phase>>

\* handleDrop: nothing happens when the row is dropped on itself.
Reorder ==
  \E fromIdx \in DOMAIN view.todoList, toIdx \in DOMAIN view.todoList :
    LET r == reorder(localStorage, view, fromIdx, toIdx) IN
    /\ Settled
    /\ fromIdx # toIdx
    /\ localStorage' = r.ls /\ view' = r.view
    /\ lastOp' = Op("reorder", NoTask, "todo", 0, now)
    /\ atLoad' = NoLoad
    /\ UNCHANGED <<ledgerVars, goalVars, pomoVars, returned, rawItem, workDone, now, habits, queued, phase>>

\* The Pomodoro view's handleAddToTodo: the To-Do view's state is not told.
HandleAddToTodo ==
  \E completed \in BOOLEAN :
    LET task == Draft(TypedText, NoStr, completed, IF completed THEN "done" ELSE "todo",
                      NoStr, NoStr) IN
    /\ Settled
    /\ TaskCount(localStorage) < MaxTasks
    /\ localStorage' = addTask(localStorage, task, now)
    /\ lastOp' = Op("addTask", NewTask(task, now), task.listType, 1, now)
    /\ atLoad' = NoLoad
    /\ UNCHANGED <<ledgerVars, goalVars, pomoVars, returned, rawItem, workDone, now, habits, view, queued, phase>>

\* ------------------------------------------------------------- page load
\* The first render: useState(getTodoList()) and its like read the stored lists.
MountRender ==
  /\ phase = "unmounted"
  /\ view' = localStorage
  /\ queued' = EmptyLists
  /\ phase' = "rendered"
  /\ atLoad' = [lists |-> localStorage, at |-> now]
  /\ lastOp' = Op("mount", NoTask, NoStr, 0, now)
  /\ UNCHANGED <<ledgerVars, goalVars, pomoVars, returned, rawItem, workDone, now, localStorage, habits>>

\* TodoList's effects run after the first render, and once more, before any
\* re-render, when StrictMode re-runs the mount effects (a development build).
TodoListEffects ==
  LET r == TodoListMountEffects(localStorage, view, now) IN
  /\ phase \in {"rendered", "appEffect"}
  /\ localStorage' = r.ls
  /\ queued' = r.queued
  /\ phase' = IF phase = "rendered" THEN "effects" ELSE "effectsAgain"
  /\ lastOp' = Op("mountEffects", NoTask, NoStr, 0, now)
  /\ UNCHANGED <<ledgerVars, goalVars, pomoVars, returned, rawItem, workDone, now, habits, view, atLoad>>

\* App's effect runs after its child's: runDailyHabitRoutines().
AppEffect ==
  \E step \in {0, 1} :
    LET r == runDailyHabitRoutines(localStorage, habits, now, step) IN
    /\ phase \in {"effects", "effectsAgain"}
    /\ TaskCount(r.ls) <= MaxTasks
    /\ r.clock <= MaxNow
    /\ step = 1 => r.clock > now
    /\ localStorage' = r.ls
    /\ now' = r.clock
    /\ phase' = IF phase = "effects" THEN "appEffect" ELSE "appEffectAgain"
    /\ lastOp' = Op("runDailyHabitRoutines", NoTask, "todo",
                    TaskCount(r.ls) - TaskCount(localStorage), now)
    /\ UNCHANGED <<ledgerVars, goalVars, pomoVars, returned, rawItem, workDone, habits, view, queued, atLoad>>

\* The re-render the load effect asked for: the queued lists become the
\* state, and the save effects write them to storage.
ReRender ==
  /\ phase \in {"appEffect", "appEffectAgain"}
  /\ view' = queued
  /\ localStorage' = Overlay(localStorage, queued, Keys)
  /\ phase' = "settled"
  /\ lastOp' = Op("reRender", NoTask, NoStr, 0, now)
  /\ UNCHANGED <<ledgerVars, goalVars, pomoVars, returned, rawItem, workDone, now, habits, queued, atLoad>>

\* The page is closed or reloaded: the view's state is gone.
Reload ==
  /\ Settled
  /\ view' = EmptyLists
  /\ queued' = EmptyLists
  /\ phase' = "unmounted"
  /\ atLoad' = NoLoad
  /\ lastOp' = Op("reload", NoTask, NoStr, 0, now)
  /\ UNCHANGED <<ledgerVars, goalVars, pomoVars, returned, rawItem, workDone, now, localStorage, habits>>

NextApp ==
  \/ Tick
  \/ MountRender
  \/ TodoListEffects
  \/ AppEffect
  \/ ReRender
  \/ Reload
  \/ HandleAddTask
  \/ SaveEdit
  \/ CompleteTask
  \/ PushToTomorrow
  \/ MoveToToday
  \/ HandleDeleteTask
  \/ HandleDeleteAllDone
  \/ Reorder

SpecApp == Init /\ [][NextApp]_vars

\* Page loads, with the handlers that fill the pending, deferred and done lists.
NextLoad ==
  \/ Tick
  \/ MountRender
  \/ TodoListEffects
  \/ AppEffect
  \/ ReRender
  \/ Reload
  \/ HandleAddTask
  \/ CompleteTask
  \/ PushToTomorrow
  \/ MoveToToday

SpecLoad == Init /\ [][NextLoad]_vars

\* The To-Do view together with the other views that write the task lists.
NextViews ==
  \/ NextApp
  \/ HandleAddToTodo

SpecViews == Init /\ [][NextViews]_vars

\* ------------------------------------------------- the schedule of a habit
\* The habits a schedule is asked for: every frequency type with daysOfWeek
\* absent or any set of weekdays.
ScheduleHabits ==
  {Habit("h1", "Read", "good", freq, days, TRUE) :
     freq \in {"daily", "weekly", "custom"}, days \in {NoDays} \cup SUBSET (0..6)}

\* A week of instants.
WeekOfInstants == 0..(7 * MsPerDay - 1)

InitSchedule ==
  /\ now \in WeekOfInstants
  /\ habits \in {<<h>> : h \in ScheduleHabits}
  /\ localStorage = EmptyLists
  /\ view = EmptyLists
  /\ queued = EmptyLists
  /\ phase = "unmounted"
  /\ lastOp = Op("init", NoTask, NoStr, 0, 0)
  /\ atLoad = NoLoad
  /\ completions = EmptyLedger
  /\ historicalCompletions = EmptyLedger
  /\ habitLastWeek = Undefined
  /\ goals = <<>>
  /\ timer = InitialTimer(DEFAULT_POMODORO_SETTINGS)
  /\ completedPomodoros = <<>>
  /\ returned = Undefined
  /\ rawItem = NoItem
  /\ workDone = 0
  /\ goalsView = <<>>

IsHabitScheduledForToday ==
  /\ lastOp.name = "init"
  /\ returned' = isHabitScheduledForToday(habits[1], now)
  /\ UNCHANGED <<rawItem, workDone>>
  /\ lastOp' = Op("isHabitScheduledForToday", NoTask, habits[1].id, 0, now)
  /\ UNCHANGED <<now, localStorage, habits, view, queued, phase, atLoad,
                 ledgerVars, goalVars, pomoVars>>

NextSchedule == IsHabitScheduledForToday

SpecSchedule == InitSchedule /\ [][NextSchedule]_vars

\* -------------------------------------------------------- the habit ledgers
\* The habit view starts with two habits stored and nothing marked.
InitHabits ==
  /\ now = 0
  /\ habits = <<hCustom, hDaily>>
  /\ localStorage = EmptyLists
  /\ view = EmptyLists
  /\ queued = EmptyLists
  /\ phase = "unmounted"
  /\ lastOp = Op("init", NoTask, NoStr, 0, 0)
  /\ atLoad = NoLoad
  /\ completions = EmptyLedger
  /\ historicalCompletions = EmptyLedger
  /\ habitLastWeek = Undefined
  /\ goals = <<>>
  /\ timer = InitialTimer(DEFAULT_POMODORO_SETTINGS)
  /\ completedPomodoros = <<>>
  /\ returned = Undefined
  /\ rawItem = NoItem
  /\ workDone = 0
  /\ goalsView = <<>>

\* The ids a ledger operation is called with: the habits ever stored.
HabitIds == {hCustom.id, hDaily.id}

\* The dates the grid is clicked at: yesterday and today.
MarkDates == {DateOf(now) - 1, DateOf(now)}

Ledgers == [completions |-> completions, historicalCompletions |-> historicalCompletions]

\* The number of dates a ledger holds.
RECURSIVE DateCount(_)
DateCount(ledger) ==
  IF DOMAIN ledger = {} THEN 0
  ELSE LET k == CHOOSE x \in DOMAIN ledger : TRUE
       IN  Len(ledger[k]) + DateCount([x \in DOMAIN ledger \ {k} |-> ledger[x]])

NextDay ==
  /\ DateOf(now) < MaxDay
  /\ now' = now + MsPerDay
  /\ lastOp' = Op("tick", NoTask, NoStr, 0, now)
  /\ UNCHANGED <<localStorage, habits, view, queued, phase, atLoad,
                 ledgerVars, goalVars, pomoVars, returned, rawItem, workDone>>

MarkHabitComplete ==
  \E habitId \in HabitIds, date \in MarkDates :
    LET r == markHabitComplete(Ledgers, habitId, date) IN
    /\ DateCount(r.historicalCompletions) <= MaxMarks
    /\ completions' = r.completions
    /\ historicalCompletions' = r.historicalCompletions
    /\ lastOp' = Op("markHabitComplete", NoTask, habitId, date, now)
    /\ UNCHANGED <<now, localStorage, habits, view, queued, phase, atLoad,
                   habitLastWeek, goalVars, pomoVars, returned, rawItem, workDone>>

UnmarkHabitComplete ==
  \E habitId \in HabitIds, date \in MarkDates :
    LET r == unmarkHabitComplete(Ledgers, habitId, date) IN
    /\ completions' = r.completions
    /\ historicalCompletions' = r.historicalCompletions
    /\ lastOp' = Op("unmarkHabitComplete", NoTask, habitId, date, now)
    /\ UNCHANGED <<now, localStorage, habits, view, queued, phase, atLoad,
                   habitLastWeek, goalVars, pomoVars, returned, rawItem, workDone>>

\* handleDelete: n is the number of dates the current ledger held for the habit.
DeleteHabit ==
  \E k \in DOMAIN habits :
    LET r == deleteHabit(habits, Ledgers, habits[k].id) IN
    /\ habits' = r.habits
    /\ completions' = r.completions
    /\ historicalCompletions' = r.historicalCompletions
    /\ lastOp' = Op("deleteHabit", NoTask, habits[k].id,
                    Len(DatesOf(completions, habits[k].id)), now)
    /\ UNCHANGED <<now, localStorage, view, queued, phase, atLoad,
                   habitLastWeek, goalVars, pomoVars, returned, rawItem, workDone>>

\* HabitTracker mounts: n is the number of dates the current ledger held.
WeeklyRefresh ==
  LET r == weeklyRefresh(completions, habitLastWeek, now) IN
  /\ completions' = r.completions
  /\ habitLastWeek' = r.habitLastWeek
  /\ lastOp' = Op("weeklyRefresh", NoTask, NoStr, DateCount(completions), now)
  /\ UNCHANGED <<now, localStorage, habits, view, queued, phase, atLoad,
                 historicalCompletions, goalVars, pomoVars, returned, rawItem, workDone>>

NextHabits ==
  \/ NextDay
  \/ MarkHabitComplete
  \/ UnmarkHabitComplete
  \/ DeleteHabit
  \/ WeeklyRefresh

SpecHabits == InitHabits /\ [][NextHabits]_vars

\* ---------------------------------------------------- the stats of a habit
\* The dates of a set, ascending.
RECURSIVE Ascending(_)
Ascending(dates) ==
  IF dates = {} THEN <<>>
  ELSE LET least == CHOOSE d \in dates : \A e \in dates : d <= e
       IN  <<least>> \o Ascending(dates \ {least})

Reversed(list) == [i \in DOMAIN list |-> list[Len(list) + 1 - i]]

\* The current ledgers getHabitStats is asked over: for the habit, any set of
\* dates of the current week and of the Saturday before it, marked in
\* ascending or in descending order.
StatsLedgers(t) ==
  LET sunday == DateOf(t) - Weekday(t)
  IN  {WithDates(EmptyLedger, hDaily.id, dates) :
         dates \in UNION {{Ascending(S), Reversed(Ascending(S))} :
                            S \in SUBSET ((sunday - 1)..(sunday + 6))}}

InitStats ==
  /\ now \in WeekOfInstants
  /\ habits = <<hDaily>>
  /\ completions \in StatsLedgers(now)
  /\ historicalCompletions = completions
  /\ habitLastWeek = Undefined
  /\ localStorage = EmptyLists
  /\ view = EmptyLists
  /\ queued = EmptyLists
  /\ phase = "unmounted"
  /\ lastOp = Op("init", NoTask, NoStr, 0, 0)
  /\ atLoad = NoLoad
  /\ goals = <<>>
  /\ timer = InitialTimer(DEFAULT_POMODORO_SETTINGS)
  /\ completedPomodoros = <<>>
  /\ returned = Undefined
  /\ rawItem = NoItem
  /\ workDone = 0
  /\ goalsView = <<>>

GetHabitStats ==
  /\ lastOp.name = "init"
  /\ returned' = getHabitStats(completions, habits[1], now)
  /\ UNCHANGED <<rawItem, workDone>>
  /\ lastOp' = Op("getHabitStats", NoTask, habits[1].id, 0, now)
  /\ UNCHANGED <<now, localStorage, habits, view, queued, phase, atLoad,
                 ledgerVars, goalVars, pomoVars>>

NextStats == GetHabitStats

SpecStats == InitStats /\ [][NextStats]_vars

\* ------------------------------------------------------------ the goal store
\* lastOp of a goal operation: task holds the feedback text passed, to the
\* goal id, n the flag passed (1 for true) or the progress set.
InitGoals ==
  /\ now = 0
  /\ goals = <<>>
  /\ habits = StoredHabits
  /\ localStorage = EmptyLists
  /\ view = EmptyLists
  /\ queued = EmptyLists
  /\ phase = "unmounted"
  /\ lastOp = Op("init", NoTask, NoStr, 0, 0)
  /\ atLoad = NoLoad
  /\ completions = EmptyLedger
  /\ historicalCompletions = EmptyLedger
  /\ habitLastWeek = Undefined
  /\ timer = InitialTimer(DEFAULT_POMODORO_SETTINGS)
  /\ completedPomodoros = <<>>
  /\ returned = Undefined
  /\ rawItem = NoItem
  /\ workDone = 0
  /\ goalsView = <<>>

GoalIds == {goals[i].id : i \in DOMAIN goals}

SubGoalIds(goalId) ==
  LET goalIndex == FindIndex(goals, goalId)
  IN  {goals[goalIndex].subGoals[i].id : i \in DOMAIN goals[goalIndex].subGoals}

\* What the other variables do during a goal operation.
GoalFrame ==
  UNCHANGED <<now, localStorage, habits, view, queued, phase, atLoad,
              ledgerVars, pomoVars, returned, rawItem, workDone, goalsView>>

AddGoal ==
  /\ Len(goals) < MaxGoals
  /\ goals' = addGoal(goals, "G", now)
  /\ lastOp' = Op("addGoal", NoStr, now, 0, now)
  /\ GoalFrame

\* handleUpdateGoalProgress: the slider of an active goal is moved.
UpdateGoal ==
  \E i \in DOMAIN goals, progress \in {30, 100} :
    /\ ~goals[i].completed
    /\ goals' = updateGoal(goals, [goals[i] EXCEPT !.progress = progress])
    /\ lastOp' = Op("updateGoal", NoStr, goals[i].id, progress, now)
    /\ GoalFrame

DeleteGoal ==
  \E goalId \in GoalIds :
    /\ goals' = deleteGoal(goals, goalId)
    /\ lastOp' = Op("deleteGoal", NoStr, goalId, 0, now)
    /\ GoalFrame

ToggleGoalCompletion ==
  \E goalId \in GoalIds, isCompleted \in BOOLEAN, feedbackText \in {NoArg, "F"} :
    /\ ~isCompleted => feedbackText = NoArg
    /\ goals' = toggleGoalCompletion(goals, goalId, isCompleted, feedbackText, now)
    /\ lastOp' = Op("toggleGoalCompletion", feedbackText, goalId,
                    IF isCompleted THEN 1 ELSE 0, now)
    /\ GoalFrame

ToggleGoalAutoProgress ==
  \E goalId \in GoalIds, auto \in BOOLEAN :
    /\ goals' = toggleGoalAutoProgress(goals, goalId, auto)
    /\ lastOp' = Op("toggleGoalAutoProgress", NoStr, goalId, IF auto THEN 1 ELSE 0, now)
    /\ GoalFrame

AddSubGoal ==
  \E goalId \in GoalIds :
    /\ Len(goals[FindIndex(goals, goalId)].subGoals) < MaxSubGoals
    /\ goals' = addSubGoal(goals, goalId, "S", now)
    /\ lastOp' = Op("addSubGoal", NoStr, goalId, 0, now)
    /\ GoalFrame

UpdateSubGoal ==
  \E goalId \in GoalIds, completed \in BOOLEAN :
    \E subGoalId \in SubGoalIds(goalId) :
      /\ goals' = updateSubGoal(goals, goalId, subGoalId, completed)
      /\ lastOp' = Op("updateSubGoal", NoStr, goalId, IF completed THEN 1 ELSE 0, now)
      /\ GoalFrame

DeleteSubGoal ==
  \E goalId \in GoalIds :
    \E subGoalId \in SubGoalIds(goalId) :
      /\ goals' = deleteSubGoal(goals, goalId, subGoalId)
      /\ lastOp' = Op("deleteSubGoal", NoStr, goalId, 0, now)
      /\ GoalFrame

UpdateSubGoalText ==
  \E goalId \in GoalIds :
    \E subGoalId \in SubGoalIds(goalId) :
      /\ goals' = updateSubGoalText(goals, goalId, subGoalId, "T")
      /\ lastOp' = Op("updateSubGoalText", NoStr, goalId, 0, now)
      /\ GoalFrame

UpdateGoalTitle ==
  \E goalId \in GoalIds :
    /\ goals' = updateGoalTitle(goals, goalId, "R")
    /\ lastOp' = Op("updateGoalTitle", NoStr, goalId, 0, now)
    /\ GoalFrame

\* Date.now() moves on between two operations.
GoalTick ==
  /\ now < MaxNow
  /\ now' = now + 1
  /\ lastOp' = Op("tick", NoStr, NoStr, 0, now)
  /\ UNCHANGED <<localStorage, habits, view, queued, phase, atLoad,
                 ledgerVars, goalVars, pomoVars, returned, rawItem, workDone>>

NextGoals ==
  \/ GoalTick
  \/ AddGoal
  \/ UpdateGoal
  \/ DeleteGoal
  \/ ToggleGoalCompletion
  \/ UpdateGoalTitle
  \/ ToggleGoalAutoProgress
  \/ AddSubGoal
  \/ UpdateSubGoal
  \/ DeleteSubGoal
  \/ UpdateSubGoalText

SpecGoals == InitGoals /\ [][NextGoals]_vars

\* --------------------------------------------- automatic progress of a goal
\* toggleGoalAutoProgress applied to stored goals whose sub-goals are any mix
\* of completed and open ones, up to MaxFlags of them.
FlagSeqs == UNION {[1..n -> BOOLEAN] : n \in 0..MaxFlags}

SubGoalsOf(flags) ==
  [i \in DOMAIN flags |-> [id |-> i, text |-> "S", completed |-> flags[i], createdAt |-> i]]

StoredGoal(flags, progress, auto) ==
  [id |-> 0, title |-> "G", progress |-> progress, createdAt |-> 0,
   subGoals |-> SubGoalsOf(flags), completed |-> FALSE, completedAt |-> Undefined,
   feedback |-> NoStr, autoProgress |-> auto]

InitGoalProgress ==
  /\ now = 0
  /\ \E flags \in FlagSeqs, progress \in {0, 40}, auto \in BOOLEAN :
       goals = <<StoredGoal(flags, progress, auto)>>
  /\ habits = StoredHabits
  /\ localStorage = EmptyLists
  /\ view = EmptyLists
  /\ queued = EmptyLists
  /\ phase = "unmounted"
  /\ lastOp = Op("init", NoTask, NoStr, 0, 0)
  /\ atLoad = NoLoad
  /\ completions = EmptyLedger
  /\ historicalCompletions = EmptyLedger
  /\ habitLastWeek = Undefined
  /\ timer = InitialTimer(DEFAULT_POMODORO_SETTINGS)
  /\ completedPomodoros = <<>>
  /\ returned = Undefined
  /\ rawItem = NoItem
  /\ workDone = 0
  /\ goalsView = <<>>

\* One call on the stored goal; returned keeps the progress stored before it.
ToggleAutoProgressOnce ==
  \E auto \in BOOLEAN :
    /\ lastOp.name = "init"
    /\ goals' = toggleGoalAutoProgress(goals, goals[1].id, auto)
    /\ returned' = goals[1].progress
    /\ UNCHANGED <<rawItem, workDone>>
    /\ lastOp' = Op("toggleGoalAutoProgress", NoStr, goals[1].id, IF auto THEN 1 ELSE 0, now)
    /\ UNCHANGED <<now, localStorage, habits, view, queued, phase, atLoad,
                   ledgerVars, pomoVars, goalsView>>

NextGoalProgress == ToggleAutoProgressOnce

SpecGoalProgress == InitGoalProgress /\ [][NextGoalProgress]_vars

\* ------------------------------------------------------ the Pomodoro timer
\* lastOp of a timer step: to holds the mode and n the cycle count before it
\* (of handleSaveSettings: the work duration before it).
\* The clock stands still here: log entries are told apart by their duration.
StoredSettings ==
  {[DEFAULT_POMODORO_SETTINGS EXCEPT !.workDuration = w, !.shortBreakDuration = s,
                                     !.longBreakDuration = l] :
     w \in 1..MaxMinutes, s \in {1}, l \in {1}}

InitPomodoro ==
  /\ now = 0
  /\ \E settings \in StoredSettings : timer = InitialTimer(settings)
  /\ completedPomodoros = <<>>
  /\ goals = <<>>
  /\ habits = StoredHabits
  /\ localStorage = EmptyLists
  /\ view = EmptyLists
  /\ queued = EmptyLists
  /\ phase = "unmounted"
  /\ lastOp = Op("init", NoTask, NoStr, 0, 0)
  /\ atLoad = NoLoad
  /\ completions = EmptyLedger
  /\ historicalCompletions = EmptyLedger
  /\ habitLastWeek = Undefined
  /\ returned = Undefined
  /\ rawItem = NoItem
  /\ workDone = 0
  /\ goalsView = <<>>

TimerOp(name) == Op(name, NoTask, timer.timerMode, timer.pomodorosInCycle, now)

PomodoroFrame ==
  UNCHANGED <<now, localStorage, habits, view, queued, phase, atLoad,
              ledgerVars, goalVars, returned, rawItem>>

\* One second of the running countdown.
SecondTick ==
  /\ timer.isActive
  /\ timer.secondsRemaining > 0
  /\ (timer.timerMode = "work" /\ timer.secondsRemaining = 1)
       => Len(completedPomodoros) < MaxLog
  /\ LET after == secondTick(timer, completedPomodoros, now)
     IN  /\ timer' = after.timer
         /\ completedPomodoros' = after.log
  /\ lastOp' = TimerOp(IF timer.secondsRemaining = 1 THEN "countdownZero" ELSE "tick")
  /\ workDone' = IF timer.timerMode = "work" /\ timer.secondsRemaining = 1
                 THEN (IF timer'.timerMode = "longBreak" THEN 0 ELSE workDone + 1)
                 ELSE workDone
  /\ PomodoroFrame

HandleStartPause ==
  /\ timer' = handleStartPause(timer)
  /\ lastOp' = TimerOp("handleStartPause")
  /\ UNCHANGED <<completedPomodoros, workDone>>
  /\ PomodoroFrame

HandleReset ==
  /\ timer' = handleReset(timer)
  /\ lastOp' = TimerOp("handleReset")
  /\ workDone' = 0
  /\ UNCHANGED completedPomodoros
  /\ PomodoroFrame

HandleSkipBreak ==
  /\ timer' = handleSkipBreak(timer)
  /\ lastOp' = TimerOp("handleSkipBreak")
  /\ UNCHANGED <<completedPomodoros, workDone>>
  /\ PomodoroFrame

\* An input of 0 stands for a field left empty or not positive; a break is
\* left so or set to one minute.
HandleSaveSettings ==
  \E w \in 0..MaxMinutes, s \in {0, 1}, l \in {0, 1} :
    /\ timer' = handleSaveSettings(timer, w, s, l)
    /\ lastOp' = Op("handleSaveSettings", NoTask, timer.timerMode,
                    timer.pomodoroSettings.workDuration, now)
    /\ UNCHANGED <<completedPomodoros, workDone>>
    /\ PomodoroFrame

\* The view is left and opened again: the restore effect takes the mode and
\* the cycle count the persist effect stored and leaves the timer paused; the
\* effect on the idle timer then sets the countdown to the mode's duration.
remount(tm) == ResetWhenIdle([tm EXCEPT !.isActive = FALSE])

Remount ==
  /\ timer' = remount(timer)
  /\ lastOp' = TimerOp("remount")
  /\ UNCHANGED <<completedPomodoros, workDone>>
  /\ PomodoroFrame

NextPomodoro ==
  \/ SecondTick
  \/ HandleStartPause
  \/ HandleReset
  \/ HandleSkipBreak
  \/ HandleSaveSettings
  \/ Remount

SpecPomodoro == InitPomodoro /\ [][NextPomodoro]_vars

\* ---------------------------------------------------------- the store reads
\* localStorage.getItem(key) gives null for an absent key and the stored text
\* otherwise.  A read's outcome is what it returns or the error it throws.
Null == "<null>"

ListKeys == {"todoList", "doneList", "tomorrowList", "habits", "userGoals"}

ObjectKeys == {"habitCompletions", "habitHistoricalCompletions"}

\* Texts that JSON.parse accepts, with the value each one stands for.
ParsableTexts == {"[]", "{}", "[7]", "null"}

\* Texts that are not JSON: a truncated write, a foreign value, a bare word.
UnparsableTexts == {"[{\"id\":", "{oops", "undefined"}

StoredTexts == {Null, ""} \cup ParsableTexts \cup UnparsableTexts

Returns(value) == [raised |-> FALSE, value |-> value]

Throws(error) == [raised |-> TRUE, value |-> error]

\* JSON.parse(text): the value of a JSON text, a SyntaxError for any other.
JSONParse(text) ==
  IF text = "[]" THEN Returns(<<>>)
  ELSE IF text = "{}" THEN Returns(EmptyLedger)
  ELSE IF text = "[7]" THEN Returns(<<7>>)
  ELSE IF text = "null" THEN Returns(Null)
  ELSE Throws("SyntaxError")

\* data ? ... : ...  (null and the empty string are falsy)
Truthy(data) == data # Null /\ data # ""

getListFromStorage(data) == IF Truthy(data) THEN JSONParse(data) ELSE Returns(<<>>)

\* getCompletions and getHistoricalCompletions
getCompletions(data) == IF Truthy(data) THEN JSONParse(data) ELSE Returns(EmptyLedger)

InitReads ==
  /\ \E key \in ListKeys \cup ObjectKeys, data \in StoredTexts : rawItem = <<key, data>>
  /\ workDone = 0
  /\ goalsView = <<>>
  /\ now = 0
  /\ goals = <<>>
  /\ habits = StoredHabits
  /\ localStorage = EmptyLists
  /\ view = EmptyLists
  /\ queued = EmptyLists
  /\ phase = "unmounted"
  /\ lastOp = Op("init", NoTask, NoStr, 0, 0)
  /\ atLoad = NoLoad
  /\ completions = EmptyLedger
  /\ historicalCompletions = EmptyLedger
  /\ habitLastWeek = Undefined
  /\ timer = InitialTimer(DEFAULT_POMODORO_SETTINGS)
  /\ completedPomodoros = <<>>
  /\ returned = Undefined

ReadFrame ==
  UNCHANGED <<now, localStorage, habits, view, queued, phase, atLoad,
              ledgerVars, goalVars, pomoVars, rawItem, workDone>>

\* getTodoList, getDoneList, getTomorrowList, getHabits, getGoals
ReadList ==
  /\ lastOp.name = "init"
  /\ rawItem[1] \in ListKeys
  /\ returned' = getListFromStorage(rawItem[2])
  /\ lastOp' = Op("read", NoTask, rawItem[1], 0, now)
  /\ ReadFrame

ReadCompletions ==
  /\ lastOp.name = "init"
  /\ rawItem[1] \in ObjectKeys
  /\ returned' = getCompletions(rawItem[2])
  /\ lastOp' = Op("read", NoTask, rawItem[1], 0, now)
  /\ ReadFrame

NextReads ==
  \/ ReadList
  \/ ReadCompletions

SpecReads == InitReads /\ [][NextReads]_vars

\* ------------------------------------------- tasks linked to sub-goals
\* The To-Do view and the Goals view, both mounted, on a settled page.  lastOp
\* of a Goals view handler: to holds the goal id, n the flag or progress passed,
\* at the sub-goal id.
GoalOf(gs, goalId) == gs[FindIndex(gs, goalId)]

\* setGoals(prevGoals => prevGoals.map(g => g.id === goalId ? updatedGoal : g))
WithStoredGoal(gv, gs, goalId) ==
  IF FindIndex(gs, goalId) = 0 THEN gv
  ELSE [i \in DOMAIN gv |-> IF gv[i].id = goalId THEN GoalOf(gs, goalId) ELSE gv[i]]

\* The progress slider: the view's copy of the goal, with the new progress,
\* is written to storage.
handleUpdateGoalProgress(gs, gv, goalId, progress) ==
  IF FindIndex(gv, goalId) # 0 /\ ~GoalOf(gv, goalId).completed
  THEN LET updatedGoals == updateGoal(gs, [GoalOf(gv, goalId) EXCEPT !.progress = progress])
       IN  [goals |-> updatedGoals, view |-> updatedGoals]
  ELSE [goals |-> gs, view |-> gv]

handleToggleSubGoal(gs, gv, goalId, subGoalId, completed) ==
  LET stored == updateSubGoal(gs, goalId, subGoalId, completed)
  IN  [goals |-> stored, view |-> WithStoredGoal(gv, stored, goalId)]

handleToggleAutoProgress(gs, gv, goalId, auto) ==
  LET stored == toggleGoalAutoProgress(gs, goalId, auto)
  IN  [goals |-> stored, view |-> WithStoredGoal(gv, stored, goalId)]

\* A goal stored in an earlier session, with no sub-goal yet.
InitGoalLink ==
  /\ now = 0
  /\ goals = addGoal(<<>>, "G", 0)
  /\ goalsView = goals
  /\ habits = <<>>
  /\ localStorage = EmptyLists
  /\ view = EmptyLists
  /\ queued = EmptyLists
  /\ phase = "settled"
  /\ lastOp = Op("init", NoTask, NoStr, 0, 0)
  /\ atLoad = NoLoad
  /\ completions = EmptyLedger
  /\ historicalCompletions = EmptyLedger
  /\ habitLastWeek = Undefined
  /\ timer = InitialTimer(DEFAULT_POMODORO_SETTINGS)
  /\ completedPomodoros = <<>>
  /\ returned = Undefined
  /\ rawItem = NoItem
  /\ workDone = 0

LinkFrame ==
  UNCHANGED <<now, habits, queued, phase, atLoad, ledgerVars, pomoVars, returned,
              rawItem, workDone>>

\* handleAddTask with a goal chosen: a sub-goal of the task's text is added to
\* the goal, the Goals view is told (goalsUpdated), and the task is stored
\* with the ids of both.
HandleAddLinkedTask ==
  \E goalId \in GoalIds :
    LET updatedGoals == addSubGoal(goals, goalId, TypedText, now)
        subGoals == GoalOf(updatedGoals, goalId).subGoals
        task == [Draft(TypedText, NoStr, FALSE, "todo", NoStr, NoStr) EXCEPT
                   !.goalId = goalId, !.subGoalId = subGoals[Len(subGoals)].id]
        r == SetFromStorage(addTask(localStorage, task, now), view, {"todoList"})
    IN  /\ Settled
        /\ TaskCount(localStorage) < MaxTasks
        /\ Len(GoalOf(goals, goalId).subGoals) < MaxSubGoals
        /\ goals' = updatedGoals
        /\ goalsView' = updatedGoals
        /\ localStorage' = r.ls /\ view' = r.view
        /\ lastOp' = Op("handleAddTask", NoTask, "todo", 1, now)
        /\ LinkFrame

HandleUpdateGoalProgress ==
  \E goalId \in GoalIds, progress \in {30, 100} :
    LET r == handleUpdateGoalProgress(goals, goalsView, goalId, progress) IN
    /\ goals' = r.goals /\ goalsView' = r.view
    /\ lastOp' = Op("handleUpdateGoalProgress", NoTask, goalId, progress, Undefined)
    /\ UNCHANGED <<localStorage, view>>
    /\ LinkFrame

HandleToggleSubGoal ==
  \E goalId \in GoalIds, completed \in BOOLEAN :
    \E subGoalId \in SubGoalIds(goalId) :
      LET r == handleToggleSubGoal(goals, goalsView, goalId, subGoalId, completed) IN
      /\ goals' = r.goals /\ goalsView' = r.view
      /\ lastOp' = Op("handleToggleSubGoal", NoTask, goalId,
                      IF completed THEN 1 ELSE 0, subGoalId)
      /\ UNCHANGED <<localStorage, view>>
      /\ LinkFrame

HandleToggleAutoProgress ==
  \E goalId \in GoalIds, auto \in BOOLEAN :
    LET r == handleToggleAutoProgress(goals, goalsView, goalId, auto) IN
    /\ goals' = r.goals /\ goalsView' = r.view
    /\ lastOp' = Op("handleToggleAutoProgress", NoTask, goalId,
                    IF auto THEN 1 ELSE 0, Undefined)
    /\ UNCHANGED <<localStorage, view>>
    /\ LinkFrame

NextGoalLink ==
  \/ Tick
  \/ HandleAddLinkedTask
  \/ CompleteTask
  \/ HandleUpdateGoalProgress
  \/ HandleToggleSubGoal
  \/ HandleToggleAutoProgress

SpecGoalLink == InitGoalLink /\ [][NextGoalLink]_vars

\* ------------------------------------------- tasks added by other views
\* The To-Do view on a settled page, with the Goals, Habit and Pomodoro views
\* adding pending tasks to storage.  The other views may add one task more
\* than the To-Do view itself.

\* The Habit view's handleSave of the form: the habit is stored (added, or
\* updated when it is being edited) and, when it is due today, its task is
\* added unless today's is pending already.
handleSave(ls, hs, form, t) ==
  LET saved == IF \E i \in DOMAIN hs : hs[i].id = form.id
               THEN [i \in DOMAIN hs |-> IF hs[i].id = form.id THEN form ELSE hs[i]]
               ELSE Append(hs, form)
  IN  [habits |-> saved,
       ls |-> IF /\ form.habitType = "good"
                 /\ form.autoAddToTodo
                 /\ \/ form.frequency.type = "daily"
                    \/ form.frequency.type = "custom" /\ form.frequency.daysOfWeek # NoDays
                 /\ isHabitScheduledForToday(form, t)
                 /\ ~alreadyExists(getTodoList(ls), form, todayStr(t))
              THEN addTask(ls, RoutineDraft(form), t)
              ELSE ls]

\* A goal with one open sub-goal, stored in an earlier session.
InitOtherViews ==
  /\ now = 0
  /\ goals = addSubGoal(addGoal(<<>>, "G", 0), 0, "A", 0)
  /\ goalsView = goals
  /\ habits = <<>>
  /\ localStorage = EmptyLists
  /\ view = EmptyLists
  /\ queued = EmptyLists
  /\ phase = "settled"
  /\ lastOp = Op("init", NoTask, NoStr, 0, 0)
  /\ atLoad = NoLoad
  /\ completions = EmptyLedger
  /\ historicalCompletions = EmptyLedger
  /\ habitLastWeek = Undefined
  /\ timer = InitialTimer(DEFAULT_POMODORO_SETTINGS)
  /\ completedPomodoros = <<>>
  /\ returned = Undefined
  /\ rawItem = NoItem
  /\ workDone = 0

\* The link-to-To-Do button of a sub-goal in the Goals view.
LinkSubGoalToTodo ==
  \E i \in DOMAIN goalsView : \E j \in DOMAIN goalsView[i].subGoals :
    LET task == [Draft(goalsView[i].subGoals[j].text, NoStr, FALSE, "todo", "Goal", NoStr)
                   EXCEPT !.goalId = goalsView[i].id,
                          !.subGoalId = goalsView[i].subGoals[j].id] IN
    /\ Settled
    /\ TaskCount(localStorage) <= MaxTasks
    /\ localStorage' = addTask(localStorage, task, now)
    /\ lastOp' = Op("linkSubGoalToTodo", NewTask(task, now), "todo", 1, now)
    /\ UNCHANGED <<now, habits, view, queued, phase, atLoad, ledgerVars, goalVars,
                   pomoVars, returned, rawItem, workDone>>

\* The form holds the daily habit hDaily: new at first, edited afterwards.
HandleSave ==
  \E form \in {hDaily} :
    LET r == handleSave(localStorage, habits, form, now) IN
    /\ Settled
    /\ TaskCount(localStorage) <= MaxTasks
    /\ localStorage' = r.ls
    /\ habits' = r.habits
    /\ lastOp' = Op("handleSave", NoTask, "todo", 0, now)
    /\ UNCHANGED <<now, view, queued, phase, atLoad, ledgerVars, goalVars,
                   pomoVars, returned, rawItem, workDone>>

NextOtherViews ==
  \/ Tick
  \/ HandleAddTask
  \/ CompleteTask
  \/ PushToTomorrow
  \/ MoveToToday
  \/ HandleDeleteTask
  \/ Reorder
  \/ HandleAddToTodo
  \/ LinkSubGoalToTodo
  \/ HandleSave

SpecOtherViews == InitOtherViews /\ [][NextOtherViews]_vars

\* ================================================================= claims
\* Positions of the stored tasks: <<listType, index>>.
Slots(ls) == {<<lt, i>> : lt \in ListTypes, i \in 1..TaskCount(ls)} \cap
             UNION {{<<lt, i>> : i \in DOMAIN ListOf(ls, lt)} : lt \in ListTypes}

At(ls, slot) == ListOf(ls, slot[1])[slot[2]]

\* No two stored tasks share an id.
IdsDistinct(ls) ==
  \A a \in Slots(ls), b \in Slots(ls) : a # b => At(ls, a).id # At(ls, b).id

\* Every stored task's listType names the list that holds it.
ListTypeNamesList(ls) == \A a \in Slots(ls) : At(ls, a).listType = a[1]

\* The listType of every stored task names the list that holds it.
ListTypeNamesListStored == ListTypeNamesList(localStorage)

\* C1: every stored task is in exactly one of the three persisted lists (no
\* id is held by two lists) and its listType names the list that holds it.
C1_ExactlyOnePartition ==
  /\ ListTypeNamesList(localStorage)
  /\ \A a \in Slots(localStorage), b \in Slots(localStorage) :
       a[1] # b[1] => At(localStorage, a).id # At(localStorage, b).id

\* C3: after addTask the list named by the draft's listType ends with the
\* task addTask returned, whose id and createdAt are the clock's reading.
C3_AddTaskStoresInNamedList ==
  lastOp.name = "addTask" =>
    LET list == ListOf(localStorage, lastOp.to) IN
    /\ lastOp.task.id = lastOp.at /\ lastOp.task.createdAt = lastOp.at
    /\ Len(list) > 0
    /\ list[Len(list)] = lastOp.task

\* C4: the ids of the tasks stored across the three lists are pairwise distinct.
C4_TaskIdsDistinct == IdsDistinct(localStorage)

\* C5: for every stored task t of a list A and every list B, moveTask(id, A, B)
\* then moveTask(id, B, A) leaves t, every field as before, in A, and no task
\* with its id in another list.
C5_MoveRoundTrip ==
  \A a \in Slots(localStorage), B \in ListTypes :
    LET t == At(localStorage, a)
        r == moveTask(moveTask(localStorage, t.id, a[1], B), t.id, B, a[1])
    IN  /\ t \in Range(ListOf(r, a[1]))
        /\ \A C \in ListTypes \ {a[1]} : \A u \in Range(ListOf(r, C)) : u.id # t.id

\* The round trip does hold of every store whose ids are distinct.
MoveRoundTripWhenIdsDistinct == IdsDistinct(localStorage) => C5_MoveRoundTrip

\* The instants of today from now on.
LaterToday == {t \in now..MaxNow : DateOf(t) = DateOf(now)}

\* C6: right after rolloverIfNeeded, calling it again on the same date leaves
\* the three lists as they are; and the last-active-date variant, run from
\* any marker on the lists stored now, is left unchanged by a second run on
\* the same date.
C6_RolloverIdempotent ==
  /\ lastOp.name = "rolloverIfNeeded" =>
       \A t \in LaterToday : rolloverIfNeeded(localStorage, t) = localStorage
  /\ \A lastDate \in {Undefined} \cup 0..DateOf(now), t \in LaterToday :
       LET once == rolloverIfNeededLastActive(localStorage, lastDate, now)
       IN  rolloverIfNeededLastActive(once.ls, once.lastActiveDate, t) = once

\* A rollover has just moved a task.
C6_Witness ==
  /\ lastOp.name = "rolloverIfNeeded"
  /\ lastOp.n > 0
  /\ localStorage.todoList # <<>>

\* The tasks of list, in order, that satisfy / do not satisfy "created before today".
CreatedBeforeToday(list) == SelectSeq(list, LAMBDA x : DateOf(x.createdAt) < DateOf(now))
CreatedToday(list) == SelectSeq(list, LAMBDA x : DateOf(x.createdAt) >= DateOf(now))

\* C7: rolloverIfNeeded appends to the pending list, with listType 'todo',
\* exactly the deferred tasks whose createdAt date is before today, in their
\* order; the deferred tasks created today stay, unchanged and in order, and
\* the done list is untouched.
C7_RolloverMovesOverdueOnly ==
  LET r == rolloverIfNeeded(localStorage, now)
      moved == CreatedBeforeToday(localStorage.tomorrowList)
  IN  /\ r.todoList = localStorage.todoList \o
                        [i \in DOMAIN moved |-> [moved[i] EXCEPT !.listType = "todo"]]
      /\ r.tomorrowList = CreatedToday(localStorage.tomorrowList)
      /\ r.doneList = localStorage.doneList
      /\ \A i \in DOMAIN r.tomorrowList :
           DateOf(r.tomorrowList[i].createdAt) = DateOf(now)

\* A rollover has just moved an overdue task and left one created today.
C7_Witness ==
  /\ lastOp.name = "rolloverIfNeeded"
  /\ lastOp.n > 0
  /\ \E i \in DOMAIN localStorage.todoList :
       DateOf(localStorage.todoList[i].createdAt) < DateOf(now)
  /\ \E i \in DOMAIN localStorage.tomorrowList :
       DateOf(localStorage.tomorrowList[i].createdAt) = DateOf(now)

\* The stored tasks of a habit created today.
TodaysTasksOf(ls, habitId) ==
  {a \in Slots(ls) : At(ls, a).habitId = habitId
                     /\ DateOf(At(ls, a).createdAt) = DateOf(now)}

\* C9: no habit has more than one task created today across the three lists.
C9_OneRoutineTaskPerHabitPerDay ==
  \A k \in DOMAIN habits : Cardinality(TodaysTasksOf(localStorage, habits[k].id)) <= 1

\* C10: right after runDailyHabitRoutines, on the same day, every eligible
\* habit has exactly one pending task with its habitId, source 'Routine' and
\* today's createdAt date, and a second run changes nothing.
C10_RoutineTwiceOneTask ==
  (lastOp.name = "runDailyHabitRoutines" /\ DateOf(lastOp.at) = DateOf(now)) =>
    /\ runDailyHabitRoutines(localStorage, habits, now, 0).ls = localStorage
    /\ \A k \in DOMAIN habits :
         Eligible(habits[k], now) =>
           Cardinality({a \in TodaysTasksOf(localStorage, habits[k].id) :
                          a[1] = "todo" /\ At(localStorage, a).source = "Routine"}) = 1

\* The second run changes nothing, whatever the lists hold.
RoutineSecondRunChangesNothing ==
  (lastOp.name = "runDailyHabitRoutines" /\ DateOf(lastOp.at) = DateOf(now)) =>
    runDailyHabitRoutines(localStorage, habits, now, 0).ls = localStorage

\* C2: after completeTask the persisted done list holds the task, completed
\* and with completedAt set, and the persisted pending list no longer holds it.
C2_CompleteTaskStoresCompleted ==
  lastOp.name = "completeTask" =>
    /\ \E d \in Range(localStorage.doneList) :
         d.id = lastOp.task.id /\ d.completed /\ d.completedAt # Undefined
    /\ \A u \in Range(localStorage.todoList) : u.id # lastOp.task.id

\* After completeTask the persisted pending list no longer holds the task.
CompleteTaskLeavesPending ==
  lastOp.name = "completeTask" =>
    \A u \in Range(localStorage.todoList) : u.id # lastOp.task.id

\* The deferred tasks the load found overdue.
OverdueAtLoad ==
  {x \in Range(atLoad.lists.tomorrowList) : DateOf(x.createdAt) < DateOf(atLoad.at)}

\* C8: once a page load has settled, every task the load found overdue in
\* the deferred list is in the displayed and in the persisted pending list,
\* with listType 'todo', and in neither deferred list.
C8_RolloverSettledOnLoad ==
  (phase = "settled" /\ lastOp.name = "reRender") =>
    \A x \in OverdueAtLoad :
      /\ [x EXCEPT !.listType = "todo"] \in Range(view.todoList)
      /\ [x EXCEPT !.listType = "todo"] \in Range(localStorage.todoList)
      /\ \A u \in Range(view.tomorrowList) \cup Range(localStorage.tomorrowList) :
           u.id # x.id

\* A load that found an overdue deferred task has settled.
C8_Witness ==
  /\ phase = "settled"
  /\ lastOp.name = "reRender"
  /\ OverdueAtLoad # {}

\* C11: isHabitScheduledForToday returns true for a daily habit on every date,
\* for a custom habit exactly when today's weekday (0 = Sunday .. 6 = Saturday)
\* is in its daysOfWeek (false when daysOfWeek is absent), and false for a
\* weekly habit.
C11_ScheduledByFrequency ==
  lastOp.name = "isHabitScheduledForToday" =>
    LET frequency == habits[1].frequency IN
    /\ frequency.type = "daily" => returned = TRUE
    /\ frequency.type = "weekly" => returned = FALSE
    /\ (frequency.type = "custom" /\ frequency.daysOfWeek = NoDays) => returned = FALSE
    /\ (frequency.type = "custom" /\ frequency.daysOfWeek # NoDays) =>
         returned = (Weekday(now) \in frequency.daysOfWeek)

\* A custom habit with several days, asked on a day that is not one of them.
C11_Witness ==
  /\ lastOp.name = "isHabitScheduledForToday"
  /\ habits[1].frequency.type = "custom"
  /\ habits[1].frequency.daysOfWeek = {1, 3, 5}
  /\ Weekday(now) = 2
  /\ returned = FALSE

\* The dates a range query may be asked with.
QueryDates == (-1)..MaxDay

C13_CurrentWithinHistorical ==
  \A id \in DOMAIN completions :
    Range(completions[id]) \subseteq Range(DatesOf(historicalCompletions, id))

\* After a weekly reset a habit is marked again: the historical ledger holds
\* more dates for it than the current one.
C13_Witness ==
  /\ habitLastWeek # Undefined
  /\ \E id \in DOMAIN completions :
       /\ completions[id] # <<>>
       /\ Len(DatesOf(historicalCompletions, id)) > Len(completions[id])

\* How often a date is listed.
Listed(dates, date) == Cardinality({i \in DOMAIN dates : dates[i] = date})

\* C14: right after markHabitComplete(id, date) the date is listed once in
\* both ledgers and marking again changes neither; right after
\* unmarkHabitComplete(id, date) the date is in neither ledger and unmarking
\* again changes neither.
C14_MarkUnmarkIdempotent ==
  /\ lastOp.name = "markHabitComplete" =>
       /\ Listed(DatesOf(completions, lastOp.to), lastOp.n) = 1
       /\ Listed(DatesOf(historicalCompletions, lastOp.to), lastOp.n) = 1
       /\ markHabitComplete(Ledgers, lastOp.to, lastOp.n) = Ledgers
  /\ lastOp.name = "unmarkHabitComplete" =>
       /\ Listed(DatesOf(completions, lastOp.to), lastOp.n) = 0
       /\ Listed(DatesOf(historicalCompletions, lastOp.to), lastOp.n) = 0
       /\ unmarkHabitComplete(Ledgers, lastOp.to, lastOp.n) = Ledgers

\* A date has just been marked for a habit that has another date recorded.
C14_Witness ==
  /\ lastOp.name = "markHabitComplete"
  /\ Len(DatesOf(completions, lastOp.to)) = 2
  /\ Len(DatesOf(historicalCompletions, lastOp.to)) = 2

\* A date has just been unmarked while another stays recorded.
C14_WitnessUnmark ==
  /\ lastOp.name = "unmarkHabitComplete"
  /\ Len(DatesOf(historicalCompletions, lastOp.to)) = 1

\* The Sunday of the current week, and the days of the week (0 = Sunday ..
\* 6 = Saturday) the current ledger has marked for the habit asked about.
ThisSunday == DateOf(now) - Weekday(now)
MarkedDays == {d \in 0..6 : ThisSunday + d \in Range(DatesOf(completions, lastOp.to))}

\* The days first..last are all marked.
RunMarked(first, last) == \A d \in first..last : d \in MarkedDays

C16_AutoProgressPercent ==
  (lastOp.name = "toggleGoalAutoProgress" /\ lastOp.n = 1) =>
    LET subGoals == goals[1].subGoals
        total == Len(subGoals)
        done == Cardinality({i \in DOMAIN subGoals : subGoals[i].completed})
        p == goals[1].progress
    IN  /\ goals[1].autoProgress
        /\ p \in 0..100
        /\ total = 0 => p = 0
        /\ total > 0 => /\ 2 * total * p <= 200 * done + total
                        /\ 200 * done + total < 2 * total * (p + 1)
        /\ (total = 4 /\ done = 2) => p = 50

C16_Witness ==
  /\ lastOp.name = "toggleGoalAutoProgress"
  /\ lastOp.n = 1
  /\ Len(goals[1].subGoals) = 4
  /\ CompletedCount(goals[1].subGoals) = 2
  /\ returned = 40
  /\ goals[1].progress = 50

\* The goals stored before and after a step that have kept their place.
KeptGoals == {i \in DOMAIN goals : i \in DOMAIN goals' /\ goals'[i].id = goals[i].id}

\* C17: addSubGoal, deleteSubGoal, updateSubGoal, updateSubGoalText and
\* toggleGoalAutoProgress(goalId, false) leave the stored progress of every
\* goal as it was, also while autoProgress is enabled; the stored progress of
\* a goal changes only in toggleGoalAutoProgress(goalId, true) and updateGoal.
C17_ProgressFrame ==
  [][/\ ( \/ lastOp'.name \in {"addSubGoal", "deleteSubGoal", "updateSubGoal",
                               "updateSubGoalText"}
          \/ (lastOp'.name = "toggleGoalAutoProgress" /\ lastOp'.n = 0) )
        => /\ Len(goals') = Len(goals)
           /\ \A i \in DOMAIN goals :
                /\ goals'[i].id = goals[i].id
                /\ goals'[i].progress = goals[i].progress
     /\ (\E i \in KeptGoals : goals'[i].progress # goals[i].progress)
        => \/ lastOp'.name = "updateGoal"
           \/ (lastOp'.name = "toggleGoalAutoProgress" /\ lastOp'.n = 1)
    ]_vars

\* a sub-goal was ticked while autoProgress is on, and the stored progress is
\* not the share of completed sub-goals.
C17_Witness ==
  /\ lastOp.name = "updateSubGoal"
  /\ lastOp.n = 1
  /\ \E i \in DOMAIN goals :
       /\ goals[i].id = lastOp.to
       /\ goals[i].autoProgress
       /\ Len(goals[i].subGoals) = 2
       /\ CompletedCount(goals[i].subGoals) = 2
       /\ goals[i].progress = 50

\* completedAt is set exactly on the completed goals.
CompletedAtIffCompleted ==
  \A i \in DOMAIN goals : (goals[i].completedAt # Undefined) <=> goals[i].completed

\* C18: toggleGoalCompletion(goalId, true, feedback) sets completed, sets
\* completedAt to the time of the call and stores the feedback given;
\* toggleGoalCompletion(goalId, false) clears completed and completedAt and
\* leaves the stored feedback as it was; in every state a goal has completedAt
\* set if and only if it is completed.
C18_CompletionAndDate ==
  /\ []CompletedAtIffCompleted
  /\ [][lastOp'.name = "toggleGoalCompletion" =>
          LET goalIndex == FindIndex(goals, lastOp'.to)
          IN  /\ goalIndex # 0
              /\ Len(goals') = Len(goals)
              /\ lastOp'.n = 1 =>
                   /\ goals'[goalIndex].completed
                   /\ goals'[goalIndex].completedAt = lastOp'.at
                   /\ goals'[goalIndex].completedAt # Undefined
                   /\ goals'[goalIndex].feedback =
                        IF lastOp'.task = NoArg THEN goals[goalIndex].feedback
                        ELSE lastOp'.task
              /\ lastOp'.n = 0 =>
                   /\ ~goals'[goalIndex].completed
                   /\ goals'[goalIndex].completedAt = Undefined
                   /\ goals'[goalIndex].feedback = goals[goalIndex].feedback
       ]_vars

\* a goal completed with feedback was restored: no date, the feedback kept.
C18_Witness ==
  /\ lastOp.name = "toggleGoalCompletion"
  /\ lastOp.n = 0
  /\ \E i \in DOMAIN goals :
       /\ goals[i].id = lastOp.to
       /\ ~goals[i].completed
       /\ goals[i].completedAt = Undefined
       /\ goals[i].feedback = "F"

Breaks == {"shortBreak", "longBreak"}

\* The transitions of a countdown reaching zero and of Skip Break.
ListedModeChange ==
  \/ /\ lastOp'.name = "countdownZero"
     /\ timer.timerMode = "work"
     /\ IF timer.pomodorosInCycle + 1 < timer.pomodoroSettings.pomodorosPerLongBreak
        THEN /\ timer'.timerMode = "shortBreak"
             /\ timer'.pomodorosInCycle = timer.pomodorosInCycle + 1
        ELSE /\ timer'.timerMode = "longBreak"
             /\ timer'.pomodorosInCycle = 0
  \/ /\ lastOp'.name \in {"countdownZero", "handleSkipBreak"}
     /\ timer.timerMode \in Breaks
     /\ timer'.timerMode = "work"
     /\ timer'.pomodorosInCycle = timer.pomodorosInCycle

\* Reset during a break.
ResetModeChange ==
  /\ lastOp'.name = "handleReset"
  /\ timer.timerMode \in Breaks
  /\ timer'.timerMode = "work"
  /\ timer'.pomodorosInCycle = 0

\* A countdown reaching zero and Skip Break during a break do change the
\* mode as listed; Skip Break during work changes nothing.
ModeChangesTaken ==
  /\ lastOp'.name = "countdownZero" => ListedModeChange
  /\ (lastOp'.name = "handleSkipBreak" /\ timer.timerMode \in Breaks) => ListedModeChange
  /\ (lastOp'.name = "handleSkipBreak" /\ timer.timerMode = "work") => timer' = timer

\* C19 as stated: the timer mode changes only when a work countdown reaches
\* zero (to shortBreak while the incremented cycle count is below
\* pomodorosPerLongBreak, to longBreak with the count reset to 0 otherwise) and
\* when a break's countdown reaches zero or Skip Break is pressed in a break
\* (to work); Skip Break during work changes nothing.
C19_OnlyListedModeChanges ==
  [][/\ ModeChangesTaken
     /\ timer'.timerMode # timer.timerMode => ListedModeChange]_vars

\* C19, amended: the timer mode changes only in the transitions listed and in
\* Reset, which takes a break to work with the cycle count reset to 0.
C19_ModeChanges ==
  [][/\ ModeChangesTaken
     /\ timer'.timerMode # timer.timerMode => (ListedModeChange \/ ResetModeChange)]_vars

\* the last work countdown of a cycle reached zero: long break, count 0.
C19_Witness ==
  /\ lastOp.name = "countdownZero"
  /\ lastOp.to = "work"
  /\ lastOp.n + 1 = timer.pomodoroSettings.pomodorosPerLongBreak
  /\ timer.timerMode = "longBreak"
  /\ timer.pomodorosInCycle = 0

\* C20: a work countdown reaching zero puts exactly one entry at the head of
\* the completed-Pomodoro log, its duration the work duration configured then,
\* above the earlier entries in their order; no other step of the timer (a
\* break countdown reaching zero, Skip Break, Start/Pause, Reset, a settings
\* change, a second passing) changes the log.
C20_LogGrowsAtHead ==
  [][IF lastOp'.name = "countdownZero" /\ timer.timerMode = "work"
     THEN /\ Len(completedPomodoros') = Len(completedPomodoros) + 1
          /\ completedPomodoros'[1].duration = timer.pomodoroSettings.workDuration
          /\ Tail(completedPomodoros') = completedPomodoros
     ELSE completedPomodoros' = completedPomodoros]_vars

\* a work countdown reached zero above an entry of another duration.
C20_Witness ==
  /\ lastOp.name = "countdownZero"
  /\ lastOp.to = "work"
  /\ Len(completedPomodoros) >= 2
  /\ completedPomodoros[1].duration # completedPomodoros[2].duration
  /\ completedPomodoros[1].duration = timer.pomodoroSettings.workDuration

\* C21: pausing a running countdown leaves secondsRemaining as it was, and
\* resuming a paused countdown continues from that same value.
C21_PauseKeepsSeconds ==
  [][lastOp'.name = "handleStartPause" =>
       /\ timer'.isActive = ~timer.isActive
       /\ timer'.secondsRemaining = timer.secondsRemaining]_vars

\* An idle timer shows the full duration of its mode under the settings in force.
IdleShowsFullDuration ==
  ~timer.isActive =>
    timer.secondsRemaining = getDurationForMode(timer.timerMode, timer.pomodoroSettings)

\* C22: saving durations while the countdown is running leaves
\* secondsRemaining, the mode, the running flag and the cycle count as they
\* were and leaves pomodorosPerLongBreak unchanged; the new durations are what
\* the countdown is set to whenever the timer is idle afterwards.
C22_SettingsWhileRunning ==
  /\ []IdleShowsFullDuration
  /\ [][lastOp'.name = "handleSaveSettings" =>
          /\ timer'.pomodoroSettings.pomodorosPerLongBreak =
               timer.pomodoroSettings.pomodorosPerLongBreak
          /\ timer'.timerMode = timer.timerMode
          /\ timer'.isActive = timer.isActive
          /\ timer'.pomodorosInCycle = timer.pomodorosInCycle
          /\ timer.isActive => timer'.secondsRemaining = timer.secondsRemaining
       ]_vars

\* the work duration was changed while a work countdown was at its last second.
C22_Witness ==
  /\ lastOp.name = "handleSaveSettings"
  /\ lastOp.to = "work"
  /\ lastOp.n # timer.pomodoroSettings.workDuration
  /\ timer.isActive
  /\ timer.secondsRemaining = 1
  /\ timer.secondsRemaining # getDurationForMode(timer.timerMode, timer.pomodoroSettings)

\* The empty collection a read of the key gives.
EmptyOf(key) == IF key \in ObjectKeys THEN EmptyLedger ELSE <<>>

\* C23: a store read over a key that is absent or holds unparsable text
\* returns the empty collection and raises no error.
C23_ReadsNeverRaise ==
  (lastOp.name = "read" /\ rawItem[2] \in {Null} \cup UnparsableTexts) =>
    /\ ~returned.raised
    /\ returned.value = EmptyOf(rawItem[1])

\* The part of C23 that holds: an absent key (or an empty text) reads as the
\* empty collection, without an error.
C23_AbsentReadsEmpty ==
  (lastOp.name = "read" /\ rawItem[2] \in {Null, ""}) =>
    /\ ~returned.raised
    /\ returned.value = EmptyOf(rawItem[1])

\* The list of that type holds a task of that id.
Holds(ls, listType, id) == \E i \in DOMAIN ListOf(ls, listType) : ListOf(ls, listType)[i].id = id

\* C24: updateTask given a task whose listType names a list that does not hold
\* its id, and moveTask given a source list that does not hold the id, change
\* nothing: the three persisted lists keep their contents, so the task stays
\* in the list that holds it.
C24_WrongPartitionNoOp ==
  [][(/\ lastOp'.name \in {"updateTask", "moveTask"}
      /\ ~Holds(localStorage, lastOp'.task.listType, lastOp'.task.id))
     => localStorage' = localStorage]_vars

\* moveTask was called for a stored task with a source list that does not
\* hold it, and the task is where it was.
C24_Witness ==
  /\ lastOp.name = "moveTask"
  /\ lastOp.task.listType = "done"
  /\ lastOp.to = "tomorrow"
  /\ ~Holds(localStorage, "done", lastOp.task.id)
  /\ ~Holds(localStorage, "tomorrow", lastOp.task.id)
  /\ Holds(localStorage, "todo", lastOp.task.id)

\* moveTask of a stored task out of the list that holds it keeps the number
\* of tasks stored.
MoveKeepsCount ==
  \A a \in Slots(localStorage), B \in ListTypes :
    TaskCount(moveTask(localStorage, At(localStorage, a).id, a[1], B)) = TaskCount(localStorage)

\* rolloverIfNeeded (the per-task variant) keeps the number of tasks stored
\* and the done list.
RolloverKeepsCount ==
  LET r == rolloverIfNeeded(localStorage, now)
  IN  /\ TaskCount(r) = TaskCount(localStorage)
      /\ r.doneList = localStorage.doneList

\* The same of the last-active-date variant, run from any marker.
RolloverLastActiveKeepsCount ==
  \A lastDate \in {Undefined} \cup 0..DateOf(now) :
    LET r == rolloverIfNeededLastActive(localStorage, lastDate, now).ls
    IN  /\ TaskCount(r) = TaskCount(localStorage)
        /\ r.doneList = localStorage.doneList

\* C28: moveTask with an id held by the source list, and rolloverIfNeeded (in
\* both variants), never lose or duplicate tasks: the number of tasks stored
\* across the three lists is the same before and after the call, and
\* rolloverIfNeeded leaves the done list unchanged.
C28_NoLossNoDuplicate ==
  /\ MoveKeepsCount
  /\ RolloverKeepsCount
  /\ RolloverLastActiveKeepsCount

\* moveTask does keep the count on every store whose ids are distinct.
MoveKeepsCountWhenIdsDistinct == IdsDistinct(localStorage) => MoveKeepsCount

\* moveTask(id, 'todo', 'tomorrow') has just put a task in the Tomorrow list.
JustPushed ==
  /\ lastOp.name = "moveTask"
  /\ lastOp.task.listType = "todo"
  /\ lastOp.to = "tomorrow"
  /\ Holds(localStorage, "tomorrow", lastOp.task.id)

\* C29: a task pushed from the To-Do list to the Tomorrow list stays in the
\* Tomorrow list under every rolloverIfNeeded run later on the same calendar
\* day, whatever its createdAt: rollover does not return it before the date
\* has advanced.
C29_PushedStaysToday ==
  JustPushed =>
    \A t \in LaterToday : Holds(rolloverIfNeeded(localStorage, t), "tomorrow", lastOp.task.id)

\* The part of C29 that holds: a pushed task all of whose namesakes were
\* created today stays in the Tomorrow list for the rest of the day.
PushedCreatedTodayStays ==
  (/\ JustPushed
   /\ \A x \in Range(localStorage.tomorrowList) :
        x.id = lastOp.task.id => DateOf(x.createdAt) = DateOf(now))
  => \A t \in LaterToday : Holds(rolloverIfNeeded(localStorage, t), "tomorrow", lastOp.task.id)

\* The cycle count stays below the number of Pomodoros per long break.
CycleCountInRange ==
  /\ 0 <= timer.pomodorosInCycle
  /\ timer.pomodorosInCycle < timer.pomodoroSettings.pomodorosPerLongBreak

\* C30: in every state 0 <= pomodorosInCycle < pomodorosPerLongBreak; the
\* timer enters longBreak in exactly the steps in which the number of work
\* countdowns completed since the last long break or Reset reaches
\* pomodorosPerLongBreak; a countdown reaching zero leaves the timer inactive,
\* and an inactive timer becomes active only by Start.
C30_CycleCount ==
  /\ []CycleCountInRange
  /\ [][/\ (timer'.timerMode = "longBreak" /\ timer.timerMode # "longBreak")
            <=> (/\ lastOp'.name = "countdownZero"
                 /\ timer.timerMode = "work"
                 /\ workDone + 1 = timer.pomodoroSettings.pomodorosPerLongBreak)
        /\ lastOp'.name = "countdownZero" => ~timer'.isActive
        /\ (~timer.isActive /\ timer'.isActive) => lastOp'.name = "handleStartPause"
       ]_vars

\* the fourth work countdown since a Reset reached zero, after more than four
\* in all: long break, timer inactive.
C30_Witness ==
  /\ lastOp.name = "countdownZero"
  /\ lastOp.to = "work"
  /\ timer.timerMode = "longBreak"
  /\ ~timer.isActive
  /\ workDone = 0
  /\ lastOp.n + 1 = timer.pomodoroSettings.pomodorosPerLongBreak
  /\ Len(completedPomodoros) = timer.pomodoroSettings.pomodorosPerLongBreak

\* The tasks the Routine Engine has added to the pending list since the page
\* load under way began.
RoutineTasksOfLoad ==
  {x \in Range(localStorage.todoList) :
     /\ x.source = "Routine"
     /\ x.createdAt >= atLoad.at
     /\ x \notin Range(atLoad.lists.todoList)}

\* C25: when a page load settles (the re-render and the save effects that
\* follow the mount effects and App's runDailyHabitRoutines), every task the
\* Routine Engine created during the load is still in the persisted pending
\* list.
C25_RoutineTasksSurviveLoad ==
  [][(lastOp'.name = "reRender" /\ phase' = "settled") =>
       \A x \in RoutineTasksOfLoad : x \in Range(localStorage'.todoList)]_vars

\* The persisted done list holds a completed task linked to that sub-goal.
LinkedTaskDone(goalId, subGoalId) ==
  \E d \in Range(localStorage.doneList) : d.goalId = goalId /\ d.subGoalId = subGoalId

\* C26: a sub-goal whose persisted completed flag is set and whose linked task
\* has been completed keeps the flag set under every later operation of the
\* Goals view, a progress-slider update included, except an explicit un-tick
\* of that sub-goal.
C26_FlagSurvivesGoalsView ==
  [][\A i \in DOMAIN goals : \A j \in DOMAIN goals[i].subGoals :
       (/\ LinkedTaskDone(goals[i].id, goals[i].subGoals[j].id)
        /\ goals[i].subGoals[j].completed
        /\ i \in DOMAIN goals'
        /\ j \in DOMAIN goals'[i].subGoals
        /\ goals'[i].subGoals[j].id = goals[i].subGoals[j].id
        /\ ~goals'[i].subGoals[j].completed)
       => /\ lastOp'.name = "handleToggleSubGoal"
          /\ lastOp'.n = 0
          /\ lastOp'.at = goals[i].subGoals[j].id]_vars

\* Tasks the persisted pending list holds that the Goals view's button
\* (source 'Goal') or the Habit view's save (source 'Routine') put there.
FromOtherView == {x \in Range(localStorage.todoList) : x.source \in {"Goal", "Routine"}}

\* C27: a task another view added to the persisted pending list leaves that
\* list only in a delete, a complete or a push-to-tomorrow of the To-Do view,
\* never in a drag-and-drop reorder or another handler.
C27_OtherViewsTasksStay ==
  [][\A x \in FromOtherView :
       (\A y \in Range(localStorage'.todoList) : y.id # x.id)
       => lastOp'.name \in {"handleDeleteTask", "completeTask", "pushToTomorrow"}]_vars

====
